---- MODULE Spec2Model ----
(***************************************************************************)
(* Respawn prediction and contribution ledger of rotate-mmo-site.          *)
(*                                                                         *)
(* The record store (Supabase tables bosses, spawn_events, users,          *)
(* guild_member_contributions) is the state; every service method is an    *)
(* action over it.  Timestamps are integers in milliseconds, as            *)
(* Date.getTime() gives them; a nullable column is <<>> (null) or <<v>>.   *)
(* Names are sequences of one-character strings so that sanitizeString     *)
(* can be computed as the code computes it.                                *)
(***************************************************************************)
EXTENDS Integers, Sequences, FiniteSets, TLC

(***************************************************************************)
(* Program constants                                                       *)
(***************************************************************************)
MsPerMinute == 60000
MsPerSecond == 1000
DuplicateToleranceMinutes == 5
MaxRespawnTime == 10080
MaxPastDays == 30
DefaultPerPage == 50
DefaultPredictionCount == 5

(***************************************************************************)
(* Bounds of the model                                                     *)
(***************************************************************************)
MaxInterval == 2
MaxEvents == 2
MaxScore == 3
MaxLedgerEvents == 3
NumCallers == 2
MaxReports == 2
MaxListLen == 3

None == <<>>
Some(v) == <<v>>
IsSome(o) == o # <<>>
Val(o) == o[1]

Minutes(m) == m * MsPerMinute

BossIds == {"b1", "b2"}
\* a request may also name a boss that is not in the table
RequestBossIds == BossIds \cup {"b0"}
UserIds == {"u1", "u2"}
\* minutes at which spawns are reported: the gaps between them are 3, 5, 6
\* and more, in both directions
SpawnMinutes == {0, 3, 6, 11}
SpawnTimes == {Minutes(m) : m \in SpawnMinutes}
RespawnTimes == (1..MaxInterval) \cup {MaxRespawnTime}
EventIds == 1..MaxEvents
GuildIds == {"g1", "g2"}

\* member names, as sequences of characters
NameA == <<"a">>
NameB == <<"b">>
NamePaddedA == <<" ", "a">>
NameC == <<"c">>

\* table users: u1 and u2 are accounts with a guild, u3 has none; the
\* member "c" has no account; u4 carries the role 'admin' the services look
\* for (the schema file declares no such column)
Users ==
    {[id |-> "u1", username |-> NameA, guild |-> Some("g1"), role |-> "user"],
     [id |-> "u2", username |-> NameB, guild |-> Some("g2"), role |-> "user"],
     [id |-> "u3", username |-> <<"d">>, guild |-> None, role |-> "user"],
     [id |-> "u4", username |-> <<"e">>, guild |-> None, role |-> "admin"]}

\* a user id as the text a participant list would carry
IdText(id) == <<id>>

VARIABLES
    bosses,         \* table bosses: id -> [respawn_time, last_spawn, next_spawn]
    spawn_events,   \* table spawn_events: set of rows
    contributions,  \* table guild_member_contributions: set of rows
    calls,          \* the incrementContribution calls in progress
    reports,        \* how often each lead-time of a spawn cycle was reported due
    spawnEvents,    \* the array of events a caller hands to the predictor
    now,            \* the clock (ms)
    last            \* the last request served and its ApiResponse

vars == <<bosses, spawn_events, contributions, calls, reports, spawnEvents, now, last>>

(***************************************************************************)
(* SupabaseClientWrapper.buildQuery: of a filter value that is an object   *)
(* of operators only the first matching branch of the else-if chain is     *)
(* applied, so {'>=': lo, '<=': hi} filters with gte(lo) alone.            *)
(***************************************************************************)
RangeFilter(value, lo, hi) ==
    value >= lo

\* pb.getSpawnEvents({filter: {boss_id, spawn_time: {'>=': lo, '<=': hi}}})
EventsInRange(events, boss_id, lo, hi) ==
    {e \in events : e.boss_id = boss_id /\ RangeFilter(e.spawn_time, lo, hi)}

(***************************************************************************)
(* TimerUtils.calculateNextSpawn(boss, lastSpawnEvent?)                    *)
(* lastSpawnEvent is <<>> when the argument is omitted.                    *)
(***************************************************************************)
\* a variant that ignores the reported event and falls through to the boss's
\* own fields and the bootstrap
calculateNextSpawn_ignoresEvent(boss, lastSpawnEvent, clock) ==
    IF IsSome(boss.last_spawn)
    THEN Val(boss.last_spawn) + Minutes(boss.respawn_time)
    ELSE clock + Minutes(boss.respawn_time)

calculateNextSpawn(boss, lastSpawnEvent, clock) ==
    IF IsSome(lastSpawnEvent)
    THEN Val(lastSpawnEvent).spawn_time + Minutes(boss.respawn_time)
    ELSE IF IsSome(boss.last_spawn)
         THEN Val(boss.last_spawn) + Minutes(boss.respawn_time)
         ELSE clock + Minutes(boss.respawn_time)

\* t < clock - minutes * 60000, computed without leaving 32-bit integers
OlderThan(t, clock, minutes) ==
    \/ (clock - t) \div MsPerMinute > minutes
    \/ /\ (clock - t) \div MsPerMinute = minutes
       /\ (clock - t) % MsPerMinute > 0

(***************************************************************************)
(* ValidationUtils.validateSpawnEventData: boss_id, spawn_time and server  *)
(* are required; spawn_time must not be more than 30 days in the past.     *)
(***************************************************************************)
validateSpawnEventData(data, clock) ==
    /\ data.boss_id # ""
    /\ IsSome(data.spawn_time)
    /\ ~OlderThan(Val(data.spawn_time), clock, MaxPastDays * 24 * 60)
    /\ data.server # ""

FreshEventId(events) ==
    CHOOSE i \in EventIds : /\ \A e \in events : e.id # i
                            /\ \A j \in EventIds : (\A e \in events : e.id # j) => i <= j

(***************************************************************************)
(* SpawnService.createSpawnEvent(data, userId)                             *)
(***************************************************************************)
CreateRequest(data) ==
    [op |-> "createSpawnEvent", boss_id |-> data.boss_id,
     spawn_time |-> data.spawn_time, data |-> data]

\* a variant that has already written the boss's timer when it returns the failure
RejectCreate_afterBossUpdate(data, msg) ==
    /\ last' = CreateRequest(data) @@ [success |-> FALSE, error |-> msg]
    /\ bosses' = IF data.boss_id \in BossIds /\ IsSome(data.spawn_time)
                 THEN [bosses EXCEPT ![data.boss_id].last_spawn = data.spawn_time]
                 ELSE bosses
    /\ UNCHANGED <<spawn_events, contributions, calls, reports, spawnEvents, now>>

\* an early `return {success: false, error}`: nothing has been written
RejectCreate(data, msg) ==
    /\ last' = CreateRequest(data) @@ [success |-> FALSE, error |-> msg]
    /\ UNCHANGED <<bosses, spawn_events, contributions, calls, reports, spawnEvents, now>>

CreateSpawnEvent(data, userId) ==
    IF ~validateSpawnEventData(data, now) THEN RejectCreate(data, "validation")
    ELSE IF data.boss_id \notin BossIds THEN RejectCreate(data, "boss not found")
    ELSE
      LET T == Val(data.spawn_time)
          boss == bosses[data.boss_id]
          recentEvents ==
              EventsInRange(spawn_events, data.boss_id,
                            T - DuplicateToleranceMinutes * MsPerMinute,
                            T + DuplicateToleranceMinutes * MsPerMinute)
      IN
      IF recentEvents # {} THEN RejectCreate(data, "duplicate")
      ELSE
        /\ Cardinality(spawn_events) < MaxEvents
        /\ LET spawnEvent == [id |-> FreshEventId(spawn_events),
                              boss_id |-> data.boss_id,
                              spawn_time |-> T,
                              reported_by |-> userId,
                              verified |-> FALSE,
                              server |-> data.server,
                              participants |-> <<>>]
           IN
           /\ spawn_events' = spawn_events \cup {spawnEvent}
           /\ bosses' = [bosses EXCEPT ![data.boss_id] =
                           [@ EXCEPT !.last_spawn = Some(T),
                                     !.next_spawn =
                                        Some(calculateNextSpawn(boss, Some(spawnEvent), now))]]
           /\ last' = CreateRequest(data) @@ [success |-> TRUE, error |-> ""]
           /\ UNCHANGED <<contributions, calls, reports, spawnEvents, now>>

(***************************************************************************)
(* ValidationUtils.sanitizeString: input.trim().replace(/[<>]/g, '')       *)
(***************************************************************************)
RECURSIVE TrimStart(_)
TrimStart(str) ==
    IF str # <<>> /\ Head(str) = " " THEN TrimStart(Tail(str)) ELSE str

RECURSIVE TrimEnd(_)
TrimEnd(str) ==
    IF str # <<>> /\ str[Len(str)] = " "
    THEN TrimEnd(SubSeq(str, 1, Len(str) - 1))
    ELSE str

RECURSIVE StripAngles(_)
StripAngles(str) ==
    IF str = <<>> THEN <<>>
    ELSE IF Head(str) \in {"<", ">"} THEN StripAngles(Tail(str))
    ELSE <<Head(str)>> \o StripAngles(Tail(str))

sanitizeString(input) == StripAngles(TrimEnd(TrimStart(input)))

(***************************************************************************)
(* The guild_member_contributions table                                    *)
(***************************************************************************)
\* pb.getGuildMemberContributions({filter: {guild_id, member_name}, perPage: 1})
FindContributions(rows, guildId, memberName) ==
    {r \in rows : r.guild_id = guildId /\ r.member_name = memberName}

\* a variant without the UNIQUE constraint: only the guild is looked up
InsertAllowed_anyMember(rows, row) ==
    row.guild_id \in GuildIds

\* pb.createGuildMemberContribution: the insert throws on a guild that does
\* not exist (guild_id REFERENCES guilds) and on a second row for the same
\* (guild_id, member_name) (the UNIQUE constraint)
InsertAllowed(rows, row) ==
    /\ row.guild_id \in GuildIds
    /\ FindContributions(rows, row.guild_id, row.member_name) = {}

\* pb.updateGuildMemberContribution(existing.id, data): the row of that id
\* is replaced.  A row is identified by (guild_id, member_name), which the
\* UNIQUE constraint makes a key and which no operation here changes.
UpdateRow(rows, existing, updated) ==
    {r \in rows : ~(r.guild_id = existing.guild_id
                    /\ r.member_name = existing.member_name)} \cup {updated}

\* if (eventDate) updatedData.last_event_date = eventDate
IncrementedDate(existing, eventDate) ==
    IF IsSome(eventDate) THEN eventDate ELSE existing.last_event_date

(***************************************************************************)
(* ContributionService.incrementContribution(guildId, memberName,          *)
(* memberId?, eventDate?) as a function of the table: the table after the  *)
(* call and the ApiResponse's success.                                     *)
(***************************************************************************)
\* what follows the read: existingContributions is the result of the query
incrementWrite(rows, existingContributions, guildId, memberName, memberId, eventDate, clock) ==
    IF existingContributions # {}
    THEN LET existing == CHOOSE r \in existingContributions : TRUE
             updated == [existing EXCEPT
                           !.contribution_score = existing.contribution_score + 1,
                           !.last_event_date = IncrementedDate(existing, eventDate)]
         IN [rows |-> UpdateRow(rows, existing, updated), success |-> TRUE]
    ELSE LET contributionData ==
                 [guild_id |-> guildId,
                  member_name |-> sanitizeString(memberName),
                  member_id |-> memberId,
                  contribution_score |-> 1,
                  last_event_date |-> IF IsSome(eventDate) THEN eventDate
                                      ELSE Some(clock)]
         IN IF InsertAllowed(rows, contributionData)
            THEN [rows |-> rows \cup {contributionData}, success |-> TRUE]
            ELSE [rows |-> rows, success |-> FALSE]

incrementContribution(rows, guildId, memberName, memberId, eventDate, clock) ==
    IF guildId = "" \/ memberName = <<>>
    THEN [rows |-> rows, success |-> FALSE]
    ELSE incrementWrite(rows, FindContributions(rows, guildId, memberName),
                        guildId, memberName, memberId, eventDate, clock)

ScoreBelowCap(rows, guildId, memberName) ==
    \A r \in FindContributions(rows, guildId, memberName) :
        r.contribution_score < MaxScore

IncrementContribution(guildId, memberName, memberId, eventDate) ==
    LET res == incrementContribution(contributions, guildId, memberName,
                                     memberId, eventDate, now)
    IN /\ ScoreBelowCap(contributions, guildId, memberName)
       /\ contributions' = res.rows
       /\ last' = [op |-> "incrementContribution", guild_id |-> guildId,
                   member_name |-> memberName, event_date |-> eventDate,
                   success |-> res.success]
       /\ UNCHANGED <<bosses, spawn_events, calls, reports, spawnEvents, now>>

(***************************************************************************)
(* ContributionService.recalculateGuildContributions(guildId)              *)
(***************************************************************************)
\* buildQuery's pagination: without page and perPage the query is cut to the
\* first 50 rows of the sort, here by spawn_time descending
FirstPage(events) ==
    IF Cardinality(events) <= DefaultPerPage THEN events
    ELSE {e \in events :
            Cardinality({f \in events : f.spawn_time > e.spawn_time}) < DefaultPerPage}

\* pb.getSpawnEvents({filter: {'participants?length': {'>': 0}}, sort: '-spawn_time'})
EventsWithParticipants(events) ==
    FirstPage({e \in events : e.participants # <<>>})

\* the number of times name occurs in a participant list
RECURSIVE Occurrences(_, _)
Occurrences(list, name) ==
    IF list = <<>> THEN 0
    ELSE (IF Head(list) = name THEN 1 ELSE 0) + Occurrences(Tail(list), name)

RECURSIVE SumOccurrences(_, _)
SumOccurrences(events, name) ==
    IF events = {} THEN 0
    ELSE LET e == CHOOSE x \in events : TRUE
         IN Occurrences(e.participants, name) + SumOccurrences(events \ {e}, name)

SetMax(S) == CHOOSE x \in S : \A y \in S : y <= x

\* contributionCounts: participant -> {count, lastEventDate}
Participants(events) ==
    UNION {{e.participants[i] : i \in 1..Len(e.participants)} : e \in events}

contributionCounts(events) ==
    [name \in Participants(events) |->
        [count |-> SumOccurrences(events, name),
         lastEventDate |->
             SetMax({e.spawn_time : e \in {x \in events :
                                             Occurrences(x.participants, name) > 0}})]]

\* a variant that adds the tally to the stored score
RecalculatedRow_addsTally(rows, guildId, memberName, data) ==
    LET existingContributions == FindContributions(rows, guildId, memberName)
    IN IF existingContributions # {}
       THEN LET existing == CHOOSE r \in existingContributions : TRUE
            IN [existing EXCEPT
                  !.contribution_score = existing.contribution_score + data.count,
                  !.last_event_date = Some(data.lastEventDate)]
       ELSE [guild_id |-> guildId, member_name |-> memberName, member_id |-> None,
             contribution_score |-> data.count,
             last_event_date |-> Some(data.lastEventDate)]

\* the row written for one entry of contributionCounts: the existing row
\* overwritten, or a new row
RecalculatedRow(rows, guildId, memberName, data) ==
    LET existingContributions == FindContributions(rows, guildId, memberName)
    IN IF existingContributions # {}
       THEN LET existing == CHOOSE r \in existingContributions : TRUE
            IN [existing EXCEPT
                  !.contribution_score = data.count,
                  !.last_event_date = Some(data.lastEventDate)]
       ELSE [guild_id |-> guildId, member_name |-> memberName, member_id |-> None,
             contribution_score |-> data.count,
             last_event_date |-> Some(data.lastEventDate)]

\* the update-or-create loop over Object.entries(contributionCounts); the
\* entries have distinct names, so each writes its own row
recalculateGuildContributions(rows, events, guildId) ==
    LET counts == contributionCounts(EventsWithParticipants(events))
        names == DOMAIN counts
    IN {r \in rows : ~(r.guild_id = guildId /\ r.member_name \in names)}
       \cup {RecalculatedRow(rows, guildId, name, counts[name]) : name \in names}

RecalculateGuildContributions(guildId) ==
    LET ok == guildId # "" /\ guildId \in GuildIds
    IN /\ contributions' = IF ok
                           THEN recalculateGuildContributions(contributions,
                                                              spawn_events, guildId)
                           ELSE contributions
       /\ last' = [op |-> "recalculateGuildContributions", guild_id |-> guildId,
                   success |-> ok,
                   repeated |-> /\ ok
                                /\ last.op = "recalculateGuildContributions"
                                /\ last.success
                                /\ last.guild_id = guildId]
       /\ UNCHANGED <<bosses, spawn_events, calls, reports, spawnEvents, now>>

(***************************************************************************)
(* SpawnService.updateContributionsForParticipants(participants,           *)
(* spawnTime, server)                                                      *)
(***************************************************************************)
\* pb.getUsers({filter: {username: participant}}) and, when that finds
\* nothing, pb.getUsers({filter: {id: participant}})
FindUsers(participant) ==
    IF {u \in Users : u.username = participant} # {}
    THEN {u \in Users : u.username = participant}
    ELSE {u \in Users : IdText(u.id) = participant}

\* guildParticipantMap, as the sequence of its entries in insertion order:
\* [guild, memberNames, memberIds]
MapIndex(map, guild) ==
    IF \E i \in 1..Len(map) : map[i].guild = guild
    THEN CHOOSE i \in 1..Len(map) : map[i].guild = guild
    ELSE 0

\* memberNames.push(name) and, for an account, memberIds.push(id)
MapPush(map, guild, name, ids) ==
    LET i == MapIndex(map, guild)
    IN IF i = 0
       THEN Append(map, [guild |-> guild, memberNames |-> <<name>>, memberIds |-> ids])
       ELSE [map EXCEPT ![i].memberNames = Append(@, name),
                        ![i].memberIds = @ \o ids]

\* a variant that files every name without an account under guild g1
MapPushTracked_defaultGuild(map, tracked, participant) ==
    MapPush(map, "g1", participant, <<>>)

\* for (const contribution of contributions.items): one push per guild that
\* tracks the name
RECURSIVE MapPushTracked(_, _, _)
MapPushTracked(map, tracked, participant) ==
    IF tracked = {} THEN map
    ELSE LET c == CHOOSE x \in tracked : TRUE
         IN MapPushTracked(MapPush(map, c.guild_id, participant, <<>>),
                           tracked \ {c}, participant)

\* the first loop: for (const participant of participants)
RECURSIVE BuildParticipantMap(_, _, _)
BuildParticipantMap(map, participants, rows) ==
    IF participants = <<>> THEN map
    ELSE
      LET participant == Head(participants)
          users == FindUsers(participant)
          next ==
            IF users # {}
            THEN LET user == CHOOSE u \in users : TRUE
                 IN IF IsSome(user.guild)
                    THEN MapPush(map, Val(user.guild), user.username, <<user.id>>)
                    ELSE map
            ELSE MapPushTracked(map,
                                {c \in rows : c.member_name = participant},
                                participant)
      IN BuildParticipantMap(next, Tail(participants), rows)

\* the second loop, flattened: the calls of incrementContribution in order,
\* memberIds[i] being undefined past the end of memberIds
RECURSIVE IncrementCalls(_)
IncrementCalls(map) ==
    IF map = <<>> THEN <<>>
    ELSE LET data == Head(map)
         IN [i \in 1..Len(data.memberNames) |->
                [guild_id |-> data.guild,
                 member_name |-> data.memberNames[i],
                 member_id |-> IF i <= Len(data.memberIds)
                               THEN Some(data.memberIds[i]) ELSE None]]
            \o IncrementCalls(Tail(map))

RECURSIVE ApplyIncrements(_, _, _, _)
ApplyIncrements(rows, callSeq, spawnTime, clock) ==
    IF callSeq = <<>> THEN rows
    ELSE LET c == Head(callSeq)
         IN ApplyIncrements(
                incrementContribution(rows, c.guild_id, c.member_name, c.member_id,
                                      Some(spawnTime), clock).rows,
                Tail(callSeq), spawnTime, clock)

updateContributionsForParticipants(rows, participants, spawnTime, clock) ==
    IF participants = <<>> THEN rows
    ELSE ApplyIncrements(rows,
                         IncrementCalls(BuildParticipantMap(<<>>, participants, rows)),
                         spawnTime, clock)

(***************************************************************************)
(* SpawnService.updateSpawnEvent(id, data, userId).  data carries          *)
(* spawn_time, server, verified and participants, each <<>> when the       *)
(* request leaves it out; notes, coordinates and kill_time are columns     *)
(* nothing else reads and are left out of the rows.                        *)
(***************************************************************************)
\* a variant that lets every user through
MayModify_anyone(event, userId) == TRUE

\* reporter or admin
MayModify(event, userId) ==
    \/ event.reported_by = userId
    \/ \E u \in Users : u.id = userId /\ u.role = "admin"

UpdateRequest(id, data, userId) ==
    [op |-> "updateSpawnEvent", id |-> id, data |-> data, user |-> userId]

RejectUpdate(id, data, userId, msg) ==
    /\ last' = UpdateRequest(id, data, userId) @@ [success |-> FALSE, error |-> msg]
    /\ UNCHANGED <<bosses, spawn_events, contributions, calls, reports, spawnEvents, now>>

UpdateSpawnEvent(id, data, userId) ==
    IF ~\E e \in spawn_events : e.id = id
    THEN RejectUpdate(id, data, userId, "failed")
    ELSE
      LET existingEvent == CHOOSE e \in spawn_events : e.id = id
      IN
      IF ~MayModify(existingEvent, userId)
      THEN RejectUpdate(id, data, userId, "permissions")
      ELSE
        LET spawnEvent ==
                [existingEvent EXCEPT
                   !.spawn_time = IF IsSome(data.spawn_time)
                                  THEN Val(data.spawn_time) ELSE @,
                   !.server = IF IsSome(data.server) /\ Val(data.server) # ""
                              THEN Val(data.server) ELSE @,
                   !.verified = IF IsSome(data.verified) THEN Val(data.verified) ELSE @,
                   !.participants = IF IsSome(data.participants)
                                    THEN Val(data.participants) ELSE @]
            boss == bosses[existingEvent.boss_id]
            rows == IF IsSome(data.participants)
                    THEN updateContributionsForParticipants(
                             contributions, Val(data.participants),
                             spawnEvent.spawn_time, now)
                    ELSE contributions
        IN
        /\ \A r \in rows : r.contribution_score <= MaxScore
        /\ spawn_events' = (spawn_events \ {existingEvent}) \cup {spawnEvent}
        /\ bosses' = IF IsSome(data.spawn_time)
                     THEN [bosses EXCEPT ![existingEvent.boss_id] =
                             [@ EXCEPT !.last_spawn = data.spawn_time,
                                       !.next_spawn =
                                          Some(calculateNextSpawn(boss, Some(spawnEvent), now))]]
                     ELSE bosses
        /\ contributions' = rows
        /\ last' = UpdateRequest(id, data, userId) @@ [success |-> TRUE, error |-> ""]
        /\ UNCHANGED <<calls, reports, spawnEvents, now>>

CreateRequests ==
    [boss_id : RequestBossIds,
     spawn_time : {None} \cup {Some(t) : t \in SpawnTimes},
     server : {"s1"}]

Init ==
    /\ bosses \in [BossIds -> [respawn_time : RespawnTimes,
                               last_spawn : {None},
                               next_spawn : {None}]]
    /\ spawn_events = {}
    /\ contributions = {}
    /\ calls = <<>>
    /\ reports = <<>>
    /\ spawnEvents = <<>>
    /\ now = 0
    /\ last = [op |-> "none"]

Next ==
    \E data \in CreateRequests, userId \in UserIds : CreateSpawnEvent(data, userId)

Spec == Init /\ [][Next]_vars

(***************************************************************************)
(* The ledger, one request after another: a history of spawn events with   *)
(* participant lists is in the store, and incrementContribution and        *)
(* recalculateGuildContributions are called in any order.                  *)
(***************************************************************************)
\* the events were reported out of chronological order
LedgerEventTime(i) == Minutes(3 * ((i + 1) % 3))

ParticipantLists ==
    {<<>>, <<NameA>>, <<NameB, NameA, NameA>>}

LedgerEvent(i, list) ==
    [id |-> i, boss_id |-> "b1", spawn_time |-> LedgerEventTime(i),
     reported_by |-> "u1", verified |-> FALSE, server |-> "s1",
     participants |-> list]

LedgerHistories ==
    {{LedgerEvent(i, lists[i]) : i \in 1..MaxLedgerEvents} :
        lists \in [1..MaxLedgerEvents -> ParticipantLists]}

\* the guild the calls name, and one that is not in the table
LedgerGuildIds == {"g1", "g0"}
IncrementNames == {NameA, NamePaddedA, NameB, <<>>}
IncrementDates == {None, Some(Minutes(0)), Some(Minutes(6))}

InitLedger ==
    /\ bosses = [b \in BossIds |-> [respawn_time |-> 1, last_spawn |-> None,
                                     next_spawn |-> None]]
    /\ spawn_events \in LedgerHistories
    /\ contributions = {}
    /\ calls = <<>>
    /\ reports = <<>>
    /\ spawnEvents = <<>>
    /\ now = Minutes(6)
    /\ last = [op |-> "none"]

NextLedger ==
    \/ \E guildId \in LedgerGuildIds, memberName \in IncrementNames,
          eventDate \in IncrementDates :
          IncrementContribution(guildId, memberName, None, eventDate)
    \/ \E guildId \in LedgerGuildIds : RecalculateGuildContributions(guildId)

SpecLedger == InitLedger /\ [][NextLedger]_vars

(***************************************************************************)
(* Participant lists: two events are in the store and updateSpawnEvent     *)
(* sets their participant lists, one request after another.                *)
(***************************************************************************)
ParticipantEvent(i) ==
    [id |-> i, boss_id |-> "b1", spawn_time |-> Minutes(6 * (i - 1)),
     reported_by |-> "u1", verified |-> FALSE, server |-> "s1",
     participants |-> <<>>]

\* the member "c" is tracked by name in g1, or not tracked at all
TrackedRows ==
    {{}, {[guild_id |-> "g1", member_name |-> NameC, member_id |-> None,
           contribution_score |-> 0, last_event_date |-> None]}}

SubmittedLists ==
    {<<>>, <<NameA>>, <<NameA, NameA>>, <<NameC, NameA>>, <<NameB, NameC>>}

ParticipantUpdates ==
    [spawn_time : {None}, server : {None}, verified : {None},
     participants : {Some(list) : list \in SubmittedLists}]

InitParticipants ==
    /\ bosses = [b \in BossIds |-> [respawn_time |-> 1, last_spawn |-> None,
                                     next_spawn |-> None]]
    /\ spawn_events = {ParticipantEvent(i) : i \in EventIds}
    /\ contributions \in TrackedRows
    /\ calls = <<>>
    /\ reports = <<>>
    /\ spawnEvents = <<>>
    /\ now = Minutes(12)
    /\ last = [op |-> "none"]

NextParticipants ==
    \E id \in EventIds, data \in ParticipantUpdates, userId \in {"u1", "u2"} :
        UpdateSpawnEvent(id, data, userId)

SpecParticipants == InitParticipants /\ [][NextParticipants]_vars

(***************************************************************************)
(* The ledger under concurrent requests: NumCallers calls of               *)
(* incrementContribution for one member run at once.  A call suspends at   *)
(* its store I/O: the query is one step and the update or insert that      *)
(* follows is another, computed from what the query returned.              *)
(***************************************************************************)
Callers == 1..NumCallers

InitialRows ==
    {{}} \cup {{[guild_id |-> "g1", member_name |-> NameA, member_id |-> None,
                 contribution_score |-> sc, last_event_date |-> Some(Minutes(3))]} :
                 sc \in 0..1}

InitConcurrent ==
    /\ bosses = [b \in BossIds |-> [respawn_time |-> 1, last_spawn |-> None,
                                     next_spawn |-> None]]
    /\ spawn_events = {}
    /\ contributions \in InitialRows
    /\ calls \in [Callers -> [pc : {"read"}, guild_id : {"g1"}, member_name : {NameA},
                              event_date : IncrementDates \ {None},
                              found : {{}}, success : {FALSE}]]
    /\ reports = <<>>
    /\ spawnEvents = <<>>
    /\ now = Minutes(6)
    /\ last = [op |-> "concurrent", before |-> contributions]

\* await this.pb.getGuildMemberContributions({filter: ..., perPage: 1})
IncrementRead(c) ==
    /\ calls[c].pc = "read"
    /\ calls' = [calls EXCEPT
                   ![c].pc = "write",
                   ![c].found = FindContributions(contributions, calls[c].guild_id,
                                                  calls[c].member_name)]
    /\ UNCHANGED <<bosses, spawn_events, contributions, reports, spawnEvents, now, last>>

\* await this.pb.updateGuildMemberContribution(...) or
\* await this.pb.createGuildMemberContribution(...), then the return
IncrementWrite(c) ==
    /\ calls[c].pc = "write"
    /\ LET res == incrementWrite(contributions, calls[c].found, calls[c].guild_id,
                                 calls[c].member_name, None, calls[c].event_date, now)
       IN /\ contributions' = res.rows
          /\ calls' = [calls EXCEPT ![c].pc = "done", ![c].success = res.success]
    /\ UNCHANGED <<bosses, spawn_events, reports, spawnEvents, now, last>>

NextConcurrent ==
    \E c \in Callers : IncrementRead(c) \/ IncrementWrite(c)

SpecConcurrent == InitConcurrent /\ [][NextConcurrent]_vars

(***************************************************************************)
(* The respawn timer and the notification decision (utils/timer.ts,        *)
(* utils/notification.ts).  moment's diff in 'seconds' truncates toward    *)
(* zero.                                                                   *)
(***************************************************************************)
TruncDiv(a, b) == IF a >= 0 THEN a \div b ELSE -((-a) \div b)

\* TimerUtils.calculateTimeRemaining: whole seconds, never negative
calculateTimeRemaining(nextSpawn, clock) ==
    LET diff == TruncDiv(nextSpawn - clock, MsPerSecond)
    IN IF diff > 0 THEN diff ELSE 0

\* TimerUtils.isBossActive
isBossActive(boss, clock) ==
    IsSome(boss.next_spawn) /\ clock < Val(boss.next_spawn)

\* TimerUtils.getRespawnTimer: the list of notifications sent is always new
\* and empty
getRespawnTimer(bossId, boss, lastSpawnEvent, clock) ==
    LET nextSpawn == calculateNextSpawn(boss, lastSpawnEvent, clock)
    IN [boss_id |-> bossId,
        last_spawn |-> boss.last_spawn,
        next_spawn |-> nextSpawn,
        time_remaining |-> calculateTimeRemaining(nextSpawn, clock),
        is_active |-> isBossActive(boss, clock),
        notifications_sent |-> <<>>]

\* the two units a lead-time may have
UnitMs(type) == IF type = "minutes" THEN MsPerMinute ELSE MsPerSecond

\* a variant that subtracts the lead-time as seconds whatever its unit
getTimeUntilNotification_inSeconds(nextSpawn, notificationTiming, clock) ==
    TruncDiv(nextSpawn - notificationTiming.value * MsPerSecond - clock, MsPerSecond)

\* TimerUtils.getTimeUntilNotification: whole seconds until
\* next_spawn - value * unit
getTimeUntilNotification(nextSpawn, notificationTiming, clock) ==
    TruncDiv(nextSpawn - notificationTiming.value * UnitMs(notificationTiming.type)
                 - clock,
             MsPerSecond)

\* `${type}_${value}`
notificationKey(notificationTiming) ==
    <<notificationTiming.type, notificationTiming.value>>

Includes(list, x) == \E i \in 1..Len(list) : list[i] = x

\* TimerUtils.shouldSendNotification
shouldSendNotification(nextSpawn, notificationTiming, sentNotifications, clock) ==
    /\ getTimeUntilNotification(nextSpawn, notificationTiming, clock) <= 0
    /\ ~Includes(sentNotifications, notificationKey(notificationTiming))

\* NotificationUtils.getTimeUntilNotification: milliseconds
NotificationUtils_getTimeUntilNotification(nextSpawn, timing, clock) ==
    (nextSpawn - timing.value * (IF timing.type = "minutes" THEN MsPerMinute
                                                            ELSE MsPerSecond))
        - clock

\* NotificationUtils.shouldSendNotification
NotificationUtils_shouldSendNotification(user, timer, timing, clock) ==
    IF ~user.email_notifications THEN FALSE
    ELSE NotificationUtils_getTimeUntilNotification(timer.next_spawn, timing, clock) <= 0

\* getSpawnEvents({filter: {boss_id}, sort: '-spawn_time', perPage: 1}).items[0]
LatestEvent(events, bossId) ==
    LET mine == {e \in events : e.boss_id = bossId}
    IN IF mine = {} THEN None
       ELSE Some(CHOOSE e \in mine : \A f \in mine : f.spawn_time <= e.spawn_time)

\* the members asking, with their notification settings
NotificationUsers ==
    {[id |-> "u1", email_notifications |-> TRUE],
     [id |-> "u2", email_notifications |-> FALSE]}

\* the lead-times configured
NotificationTimings ==
    {[type |-> "minutes", value |-> 1], [type |-> "seconds", value |-> 30]}

(***************************************************************************)
(* BossService.getBossTimer(id) followed by the decision for one lead-time *)
(* of one member: the boss row and its latest event are read, the timer is *)
(* built and TimerUtils.shouldSendNotification is asked with the timer's   *)
(* own notifications_sent.  reports logs each answer "due".                *)
(***************************************************************************)
GetBossTimer(id, user, timing) ==
    IF id \notin BossIds
    THEN /\ last' = [op |-> "getBossTimer", boss_id |-> id, success |-> FALSE,
                     error |-> "Boss not found"]
         /\ UNCHANGED <<bosses, spawn_events, contributions, calls, reports, spawnEvents, now>>
    ELSE
      LET lastSpawnEvent == LatestEvent(spawn_events, id)
          timer == getRespawnTimer(id, bosses[id], lastSpawnEvent, now)
          due == shouldSendNotification(timer.next_spawn, timing,
                                        timer.notifications_sent, now)
          emailDue == NotificationUtils_shouldSendNotification(user, timer, timing, now)
          report == [user_id |-> user.id, boss_id |-> id, timing |-> timing,
                     next_spawn |-> timer.next_spawn,
                     from_event |-> IsSome(lastSpawnEvent)]
      IN
      /\ due => Len(reports) < MaxReports
      /\ reports' = IF due THEN Append(reports, report) ELSE reports
      /\ last' = [op |-> "getBossTimer", boss_id |-> id, success |-> TRUE,
                  error |-> "", user_id |-> user.id, timing |-> timing,
                  timer |-> timer, due |-> due, email_due |-> emailDue]
      /\ UNCHANGED <<bosses, spawn_events, contributions, calls, spawnEvents, now>>

\* the instants at which requests arrive
ClockInstants ==
    {0, 29500, 30000, 30500, 60000, 60500, 389500, 390000, 420000}

\* time passes
Tick ==
    /\ \E t \in ClockInstants : t > now /\ now' = t
    /\ UNCHANGED <<bosses, spawn_events, contributions, calls, reports, spawnEvents, last>>

TimerCreateRequests ==
    [boss_id : {"b1"}, spawn_time : {Some(0), Some(Minutes(6))}, server : {"s1"}]

InitTimer ==
    /\ bosses = [b \in BossIds |-> [respawn_time |-> 1, last_spawn |-> None,
                                     next_spawn |-> None]]
    /\ spawn_events = {}
    /\ contributions = {}
    /\ calls = <<>>
    /\ reports = <<>>
    /\ spawnEvents = <<>>
    /\ now = 0
    /\ last = [op |-> "none"]

NextTimer ==
    \/ \E data \in TimerCreateRequests : CreateSpawnEvent(data, "u1")
    \/ \E id \in {"b1", "b0"}, user \in NotificationUsers, timing \in NotificationTimings :
          GetBossTimer(id, user, timing)
    \/ Tick

SpecTimer == InitTimer /\ [][NextTimer]_vars

(***************************************************************************)
(* TimerUtils.shouldSendNotification called on its own, with a next_spawn, *)
(* a lead-time and a list of the keys already sent, as the clock advances. *)
(***************************************************************************)
NextSpawnInstants == {60000, 60500, 420000}

SentLists ==
    {<<>>, <<<<"minutes", 1>>>>, <<<<"seconds", 30>>>>,
     <<<<"seconds", 30>>, <<"minutes", 1>>>>}

ShouldSendNotification(nextSpawn, notificationTiming, sentNotifications) ==
    /\ last' = [op |-> "shouldSendNotification",
                next_spawn |-> nextSpawn,
                timing |-> notificationTiming,
                sent |-> sentNotifications,
                clock |-> now,
                result |-> shouldSendNotification(nextSpawn, notificationTiming,
                                                  sentNotifications, now)]
    /\ UNCHANGED <<bosses, spawn_events, contributions, calls, reports, spawnEvents, now>>

InitNotification == InitTimer

NextNotification ==
    \/ \E nextSpawn \in NextSpawnInstants, timing \in NotificationTimings,
          sent \in SentLists :
          ShouldSendNotification(nextSpawn, timing, sent)
    \/ Tick

SpecNotification == InitNotification /\ [][NextNotification]_vars

(***************************************************************************)
(* The predictor (TimerUtils.calculateSpawnAccuracy, predictSpawnTimes,    *)
(* getSpawnWindows).  Array.prototype.sort sorts the caller's array in     *)
(* place and is stable; a moment is mutable, add and subtract change it    *)
(* and return it.                                                          *)
(***************************************************************************)
\* the place of e in a list sorted with the comparator: after every element
\* the comparator does not put behind it
InsertSorted(sorted, e, ascending) ==
    LET before == {i \in 1..Len(sorted) :
                      IF ascending THEN sorted[i].spawn_time <= e.spawn_time
                                   ELSE sorted[i].spawn_time >= e.spawn_time}
        k == Cardinality(before)
    IN SubSeq(sorted, 1, k) \o <<e>> \o SubSeq(sorted, k + 1, Len(sorted))

RECURSIVE SortBySpawnTime(_, _)
SortBySpawnTime(list, ascending) ==
    IF list = <<>> THEN <<>>
    ELSE InsertSorted(SortBySpawnTime(SubSeq(list, 1, Len(list) - 1), ascending),
                      list[Len(list)], ascending)

\* moment(a).diff(moment(b), 'minutes')
MinuteDiff(a, b) == TruncDiv(a - b, MsPerMinute)

\* the gaps between neighbours of the list as it is given
Intervals(events) ==
    [i \in 1..(Len(events) - 1) |->
        MinuteDiff(events[i + 1].spawn_time, events[i].spawn_time)]

RECURSIVE SeqSum(_)
SeqSum(s) == IF s = <<>> THEN 0 ELSE s[1] + SeqSum(Tail(s))

Abs(x) == IF x < 0 THEN -x ELSE x

\* a variant that truncates instead of rounding
RoundFraction_truncated(num, den) == num \div den

\* Math.round of the fraction num / den (den > 0): the nearest integer, a
\* half going up
RoundFraction(num, den) == (2 * num + den) \div (2 * den)

\* a variant that takes the gaps in the order the caller gave the events
AccuracyOf_unsorted(respawnTime, events, sortedEvents) ==
    LET actualIntervals == Intervals(events)
        n == Len(actualIntervals)
        num == 100 * (n * respawnTime - Abs(SeqSum(actualIntervals) - n * respawnTime))
    IN IF num <= 0 THEN 0 ELSE RoundFraction(num, n * respawnTime)

\* Math.round(Math.max(0, 100 - |average - expected| / expected * 100)) with
\* average = sum / n, as the fraction
\* 100 * (n * expected - |sum - n * expected|) / (n * expected)
AccuracyOf(respawnTime, events, sortedEvents) ==
    LET actualIntervals == Intervals(sortedEvents)
        n == Len(actualIntervals)
        num == 100 * (n * respawnTime - Abs(SeqSum(actualIntervals) - n * respawnTime))
    IN IF num <= 0 THEN 0 ELSE RoundFraction(num, n * respawnTime)

\* a variant that asks for three events
calculateSpawnAccuracy_needsThree(boss, events) ==
    IF Len(events) < 3 THEN [result |-> 0, array |-> events]
    ELSE LET sortedEvents == SortBySpawnTime(events, TRUE)
         IN [result |-> AccuracyOf(boss.respawn_time, events, sortedEvents),
             array |-> sortedEvents]

\* TimerUtils.calculateSpawnAccuracy: the value returned and the caller's
\* array afterwards
calculateSpawnAccuracy(boss, events) ==
    IF Len(events) < 2 THEN [result |-> 0, array |-> events]
    ELSE LET sortedEvents == SortBySpawnTime(events, TRUE)
         IN [result |-> AccuracyOf(boss.respawn_time, events, sortedEvents),
             array |-> sortedEvents]

\* lastSpawn = lastSpawn.add(respawn_time, 'minutes'), pushed i times
Predictions(lastSpawn, respawnTime, count) ==
    [i \in 1..count |-> lastSpawn + i * Minutes(respawnTime)]

\* TimerUtils.predictSpawnTimes; count is None when the caller omits it
predictSpawnTimes(boss, events, count) ==
    LET sortedEvents == SortBySpawnTime(events, FALSE)
        n == IF IsSome(count) THEN Val(count) ELSE DefaultPredictionCount
    IN [result |-> IF sortedEvents = <<>> THEN <<>>
                   ELSE Predictions(sortedEvents[1].spawn_time, boss.respawn_time, n),
        array |-> sortedEvents]

\* the largest r with r * r <= x
RECURSIVE SqrtFloor(_)
SqrtFloor(x) ==
    IF x = 0 THEN 0
    ELSE LET r == 10 * SqrtFloor(x \div 100)
         IN r + CHOOSE d \in 0..9 :
                    /\ (r + d) * (r + d) <= x
                    /\ (r + d + 1) * (r + d + 1) > x

\* one more decimal digit of a square root: from the root r so far and the
\* remainder c, the next root and remainder
SqrtDigit(rc) ==
    LET r == rc[1]
        c == 100 * rc[2]
        d == CHOOSE k \in 0..9 :
                 /\ (20 * r + k) * k <= c
                 /\ (20 * r + k + 1) * (k + 1) > c
    IN <<10 * r + d, c - (20 * r + d) * d>>

\* floor(sqrt(x) * 10000)
SqrtTenThousandths(x) ==
    LET r == SqrtFloor(x)
    IN SqrtDigit(SqrtDigit(SqrtDigit(SqrtDigit(<<r, x - r * r>>))))[1]

\* n times the sum of squares minus the square of the sum: n * n times the
\* variance of the intervals
RECURSIVE SumOfSquares(_)
SumOfSquares(s) == IF s = <<>> THEN 0 ELSE s[1] * s[1] + SumOfSquares(Tail(s))

ScaledVariance(intervals) ==
    Len(intervals) * SumOfSquares(intervals) - SeqSum(intervals) * SeqSum(intervals)

\* the milliseconds moment adds for averageInterval minutes: the sum over n,
\* times 60000, rounded
AverageIntervalMs(intervals) ==
    RoundFraction(SeqSum(intervals) * MsPerMinute, Len(intervals))

\* the milliseconds moment adds for standardDeviation minutes:
\* sqrt(variance) * 60000 rounded, variance being ScaledVariance / n / n.
\* Computed as sqrt(ScaledVariance * (60 / n)^2) * 1000, for the n that
\* divide 60.
StandardDeviationMs(intervals) ==
    LET b == 60 \div Len(intervals)
    IN (SqrtTenThousandths(ScaledVariance(intervals) * b * b) + 5) \div 10

\* Math.round(Math.max(0, 100 - standardDeviation / averageInterval * 100)),
\* NaN (None here) when the average interval is 0.  The ratio is
\* sqrt(ScaledVariance) / sum; c is the rounded value iff
\* 100 - ratio * 100 + 0.5 >= c, that is
\* (201 - 2 c)^2 * sum^2 >= 40000 * ScaledVariance.
Confidence(intervals) ==
    LET sum == SeqSum(intervals)
        q == ScaledVariance(intervals)
        reached == {c \in 0..100 :
                       (201 - 2 * c) * (201 - 2 * c) * sum * sum >= 40000 * q}
    IN IF sum = 0 THEN None
       ELSE IF reached = {} THEN Some(0)
       ELSE Some(CHOOSE c \in reached : \A e \in reached : e <= c)

\* one window: windowStart and windowEnd are the moment nextSpawn itself,
\* which subtract has moved back and add has moved forward again before
\* either is printed
Window(nextSpawn, sdMs, confidence) ==
    LET afterSubtract == nextSpawn - sdMs
        afterAdd == afterSubtract + sdMs
    IN [start |-> afterAdd, end |-> afterAdd, confidence |-> confidence]

WindowCount == 3

\* TimerUtils.getSpawnWindows: the value returned and the caller's array
\* afterwards
getSpawnWindows(boss, events) ==
    IF Len(events) < 3 THEN [result |-> <<>>, array |-> events]
    ELSE LET sortedEvents == SortBySpawnTime(events, TRUE)
             intervals == Intervals(sortedEvents)
             lastEvent == sortedEvents[Len(sortedEvents)]
         IN [result |->
                [i \in 1..WindowCount |->
                    Window(lastEvent.spawn_time + i * AverageIntervalMs(intervals),
                           StandardDeviationMs(intervals),
                           Confidence(intervals))],
             array |-> sortedEvents]

(***************************************************************************)
(* The predictor called on an array the caller holds: the array is drawn   *)
(* in any order, with equal and sub-minute times among the events.         *)
(***************************************************************************)
PredictorTimes ==
    {Minutes(7), Minutes(67), Minutes(69), Minutes(68) + 30 * MsPerSecond}

PredictorLists ==
    UNION {{[i \in 1..n |-> [id |-> i, spawn_time |-> times[i]]] :
              times \in [1..n -> PredictorTimes]} : n \in 0..MaxListLen}

PredictorBosses == {[respawn_time |-> c] : c \in {1, 60, MaxRespawnTime}}

\* the bosses whose predicted instants are below 2^31 ms
PredictionBosses == {[respawn_time |-> c] : c \in {1, 60, 1440}}

PredictionCounts == {None, Some(1), Some(3)}

PredictorRequest(op, boss, count) ==
    [op |-> op, respawn_time |-> boss.respawn_time, count |-> count,
     input |-> spawnEvents]

CalculateSpawnAccuracy(boss) ==
    LET call == calculateSpawnAccuracy(boss, spawnEvents)
    IN /\ spawnEvents' = call.array
       /\ last' = PredictorRequest("calculateSpawnAccuracy", boss, None)
                      @@ [result |-> call.result]
       /\ UNCHANGED <<bosses, spawn_events, contributions, calls, reports, now>>

PredictSpawnTimes(boss, count) ==
    LET call == predictSpawnTimes(boss, spawnEvents, count)
    IN /\ spawnEvents' = call.array
       /\ last' = PredictorRequest("predictSpawnTimes", boss, count)
                      @@ [result |-> call.result]
       /\ UNCHANGED <<bosses, spawn_events, contributions, calls, reports, now>>

GetSpawnWindows(boss) ==
    LET call == getSpawnWindows(boss, spawnEvents)
    IN /\ spawnEvents' = call.array
       /\ last' = PredictorRequest("getSpawnWindows", boss, None)
                      @@ [result |-> call.result]
       /\ UNCHANGED <<bosses, spawn_events, contributions, calls, reports, now>>

InitPredictor ==
    /\ bosses = [b \in BossIds |-> [respawn_time |-> 1, last_spawn |-> None,
                                     next_spawn |-> None]]
    /\ spawn_events = {}
    /\ contributions = {}
    /\ calls = <<>>
    /\ reports = <<>>
    /\ spawnEvents \in PredictorLists
    /\ now = 0
    /\ last = [op |-> "none"]

NextPredictor ==
    \/ \E boss \in PredictorBosses :
          \/ CalculateSpawnAccuracy(boss)
          \/ GetSpawnWindows(boss)
    \/ \E boss \in PredictionBosses, count \in PredictionCounts :
          PredictSpawnTimes(boss, count)

SpecPredictor == InitPredictor /\ [][NextPredictor]_vars

(***************************************************************************)
(* SpawnService.deleteSpawnEvent(id, userId) and                           *)
(* SpawnService.verifySpawnEvent(id, userId).  getSpawnEvent throws when   *)
(* no row has the id, which the catch turns into a failure.                *)
(***************************************************************************)
ModerationRequest(op, id, userId) == [op |-> op, id |-> id, user |-> userId]

RejectModeration(op, id, userId, msg) ==
    /\ last' = ModerationRequest(op, id, userId) @@ [success |-> FALSE, error |-> msg]
    /\ UNCHANGED <<bosses, spawn_events, contributions, calls, reports, spawnEvents, now>>

\* a variant that also takes the boss's timer back to unset
DeleteRow_resetsBoss(existingEvent, id, userId) ==
    /\ spawn_events' = spawn_events \ {existingEvent}
    /\ bosses' = [bosses EXCEPT ![existingEvent.boss_id] =
                    [@ EXCEPT !.last_spawn = None, !.next_spawn = None]]
    /\ last' = ModerationRequest("deleteSpawnEvent", id, userId)
                   @@ [success |-> TRUE, error |-> ""]
    /\ UNCHANGED <<contributions, calls, reports, spawnEvents, now>>

\* await this.pb.deleteSpawnEvent(id) and the success return
DeleteRow(existingEvent, id, userId) ==
    /\ spawn_events' = spawn_events \ {existingEvent}
    /\ last' = ModerationRequest("deleteSpawnEvent", id, userId)
                   @@ [success |-> TRUE, error |-> ""]
    /\ UNCHANGED <<bosses, contributions, calls, reports, spawnEvents, now>>

DeleteSpawnEvent(id, userId) ==
    IF ~\E e \in spawn_events : e.id = id
    THEN RejectModeration("deleteSpawnEvent", id, userId, "failed")
    ELSE LET existingEvent == CHOOSE e \in spawn_events : e.id = id
         IN IF ~MayModify(existingEvent, userId)
            THEN RejectModeration("deleteSpawnEvent", id, userId, "permissions")
            ELSE DeleteRow(existingEvent, id, userId)

VerifySpawnEvent(id, userId) ==
    IF ~\E e \in spawn_events : e.id = id
    THEN RejectModeration("verifySpawnEvent", id, userId, "failed")
    ELSE LET spawnEvent == CHOOSE e \in spawn_events : e.id = id
         IN IF ~MayModify(spawnEvent, userId)
            THEN RejectModeration("verifySpawnEvent", id, userId, "permissions")
            ELSE /\ spawn_events' = (spawn_events \ {spawnEvent})
                                       \cup {[spawnEvent EXCEPT !.verified = TRUE]}
                 /\ last' = ModerationRequest("verifySpawnEvent", id, userId)
                                @@ [success |-> TRUE, error |-> ""]
                 /\ UNCHANGED <<bosses, contributions, calls, reports, spawnEvents, now>>

(***************************************************************************)
(* Reports are created, changed, verified and deleted by the reporter, by  *)
(* another member and by an administrator.                                 *)
(***************************************************************************)
ModerationUserIds == {"u1", "u2", "u4"}

ModerationCreateRequests ==
    [boss_id : {"b1"}, spawn_time : {Some(Minutes(0)), Some(Minutes(6))},
     server : {"s1"}, verified : {None, Some(TRUE)}]

ModerationUpdates ==
    [spawn_time : {None, Some(Minutes(3))}, server : {None},
     verified : {None, Some(TRUE), Some(FALSE)}, participants : {None}]

ModerationEventIds == EventIds \cup {0}

InitModeration == InitTimer

NextModeration ==
    \/ \E data \in ModerationCreateRequests, userId \in {"u1", "u2"} :
          CreateSpawnEvent(data, userId)
    \/ \E id \in ModerationEventIds, userId \in ModerationUserIds :
          \/ DeleteSpawnEvent(id, userId)
          \/ VerifySpawnEvent(id, userId)
          \/ \E data \in ModerationUpdates : UpdateSpawnEvent(id, data, userId)

SpecModeration == InitModeration /\ [][NextModeration]_vars

(***************************************************************************)
(* One stored event whose participant list is set again and again, with    *)
(* names of members that have an account, that are tracked by name only,   *)
(* and that nobody knows.                                                  *)
(***************************************************************************)
RosterLists == SubmittedLists \cup {<<NameC>>, <<NamePaddedA>>, <<NameC, NamePaddedA>>}

RosterUpdates ==
    [spawn_time : {None}, server : {None}, verified : {None},
     participants : {Some(list) : list \in RosterLists}]

InitRoster ==
    /\ bosses = [b \in BossIds |-> [respawn_time |-> 1, last_spawn |-> None,
                                     next_spawn |-> None]]
    /\ spawn_events = {ParticipantEvent(1)}
    /\ contributions \in TrackedRows
    /\ calls = <<>>
    /\ reports = <<>>
    /\ spawnEvents = <<>>
    /\ now = Minutes(12)
    /\ last = [op |-> "none"]

NextRoster ==
    \E data \in RosterUpdates, userId \in {"u1", "u2"} :
        UpdateSpawnEvent(1, data, userId)

SpecRoster == InitRoster /\ [][NextRoster]_vars

(***************************************************************************)
(* createSpawnEvent under concurrent requests: NumCallers calls run at     *)
(* once.  A call suspends at each of its four store calls: getBoss, the    *)
(* duplicate query, the insert and updateBoss.  before is the set of       *)
(* callers whose insert had been done when the call ran its query.         *)
(***************************************************************************)
RaceRequests ==
    {[boss_id |-> "b1", spawn_time |-> Some(Minutes(0)), server |-> "s1"],
     [boss_id |-> "b1", spawn_time |-> Some(Minutes(3)), server |-> "s1"],
     [boss_id |-> "b1", spawn_time |-> Some(Minutes(9)), server |-> "s1"],
     [boss_id |-> "b0", spawn_time |-> Some(Minutes(0)), server |-> "s1"],
     [boss_id |-> "b1", spawn_time |-> None, server |-> "s1"]}

\* the store before the calls: empty, or one report of b1 at minute 0
RaceStores ==
    {{}, {[id |-> 1, boss_id |-> "b1", spawn_time |-> Minutes(0),
           reported_by |-> "u2", verified |-> FALSE, server |-> "s1",
           participants |-> <<>>]}}

\* the id the store gives the row a caller inserts
RaceEventId(c) == MaxEvents + c

InitRace ==
    /\ bosses = [b \in BossIds |-> [respawn_time |-> 1, last_spawn |-> None,
                                     next_spawn |-> None]]
    /\ spawn_events \in RaceStores
    /\ contributions = {}
    /\ calls \in [Callers -> [pc : {"getBoss"}, data : RaceRequests, user : {"u1"},
                              boss : {None}, before : {{}},
                              success : {FALSE}, error : {""}]]
    /\ reports = <<>>
    /\ spawnEvents = <<>>
    /\ now = Minutes(9)
    /\ last = [op |-> "none"]

CreateReturn(c, success, error) ==
    [calls EXCEPT ![c].pc = "done", ![c].success = success, ![c].error = error]

\* validateSpawnEventData, then await this.pb.getBoss(data.boss_id)
CreateGetBoss(c) ==
    /\ calls[c].pc = "getBoss"
    /\ calls' = IF ~validateSpawnEventData(calls[c].data, now)
                THEN CreateReturn(c, FALSE, "validation")
                ELSE IF calls[c].data.boss_id \notin BossIds
                THEN CreateReturn(c, FALSE, "boss not found")
                ELSE [calls EXCEPT ![c].pc = "query",
                                   ![c].boss = Some(bosses[calls[c].data.boss_id])]
    /\ UNCHANGED <<bosses, spawn_events, contributions, reports, spawnEvents, now, last>>

\* await this.pb.getSpawnEvents({filter: ..., perPage: 1}) and the test of
\* recentEvents.items.length
CreateQuery(c) ==
    /\ calls[c].pc = "query"
    /\ LET T == Val(calls[c].data.spawn_time)
           recentEvents ==
               EventsInRange(spawn_events, calls[c].data.boss_id,
                             T - DuplicateToleranceMinutes * MsPerMinute,
                             T + DuplicateToleranceMinutes * MsPerMinute)
           inserted == {d \in Callers : \E e \in spawn_events : e.id = RaceEventId(d)}
       IN calls' = IF recentEvents # {}
                   THEN [CreateReturn(c, FALSE, "duplicate") EXCEPT ![c].before = inserted]
                   ELSE [calls EXCEPT ![c].pc = "insert", ![c].before = inserted]
    /\ UNCHANGED <<bosses, spawn_events, contributions, reports, spawnEvents, now, last>>

\* the row createSpawnEvent inserts
RaceSpawnEvent(c) ==
    [id |-> RaceEventId(c),
     boss_id |-> calls[c].data.boss_id,
     spawn_time |-> Val(calls[c].data.spawn_time),
     reported_by |-> calls[c].user,
     verified |-> FALSE,
     server |-> calls[c].data.server,
     participants |-> <<>>]

\* a variant whose insert is refused when the store holds a report of the
\* boss within the tolerance
CreateInsert_guarded(c) ==
    /\ calls[c].pc = "insert"
    /\ LET T == Val(calls[c].data.spawn_time)
           clash == {e \in spawn_events :
                       /\ e.boss_id = calls[c].data.boss_id
                       /\ e.spawn_time - T <= DuplicateToleranceMinutes * MsPerMinute
                       /\ T - e.spawn_time <= DuplicateToleranceMinutes * MsPerMinute}
       IN IF clash # {}
          THEN /\ calls' = CreateReturn(c, FALSE, "duplicate")
               /\ UNCHANGED spawn_events
          ELSE /\ spawn_events' = spawn_events \cup {RaceSpawnEvent(c)}
               /\ calls' = [calls EXCEPT ![c].pc = "updateBoss"]
    /\ UNCHANGED <<bosses, contributions, reports, spawnEvents, now, last>>

\* await this.pb.createSpawnEvent(spawnEventData)
CreateInsert(c) ==
    /\ calls[c].pc = "insert"
    /\ spawn_events' = spawn_events \cup {RaceSpawnEvent(c)}
    /\ calls' = [calls EXCEPT ![c].pc = "updateBoss"]
    /\ UNCHANGED <<bosses, contributions, reports, spawnEvents, now, last>>

\* await this.pb.updateBoss(...) with the boss read at the start, and the
\* success return
CreateUpdateBoss(c) ==
    /\ calls[c].pc = "updateBoss"
    /\ bosses' = [bosses EXCEPT ![calls[c].data.boss_id] =
                    [@ EXCEPT !.last_spawn = calls[c].data.spawn_time,
                              !.next_spawn =
                                 Some(calculateNextSpawn(Val(calls[c].boss),
                                                         Some(RaceSpawnEvent(c)), now))]]
    /\ calls' = CreateReturn(c, TRUE, "")
    /\ UNCHANGED <<spawn_events, contributions, reports, spawnEvents, now, last>>

NextRace ==
    \E c \in Callers :
        \/ CreateGetBoss(c)
        \/ CreateQuery(c)
        \/ CreateInsert(c)
        \/ CreateUpdateBoss(c)

SpecRace == InitRace /\ [][NextRace]_vars

(***************************************************************************)
(* The ledger's three writers under concurrent requests: each caller runs  *)
(* createGuildMemberContribution, incrementContribution or                 *)
(* recalculateGuildContributions, one call after another, and the calls of *)
(* different callers interleave at their store calls.  The table is a set  *)
(* of rows; two rows of one (guild_id, member_name) are two elements of it *)
(* unless they agree in every column.                                      *)
(***************************************************************************)
\* ContributionService.createGuildMemberContribution, what follows the
\* query: the insert of a row with score 0 and no date
createWrite(rows, guildId, memberName, memberId) ==
    LET contributionData ==
            [guild_id |-> guildId,
             member_name |-> sanitizeString(memberName),
             member_id |-> memberId,
             contribution_score |-> 0,
             last_event_date |-> None]
    IN IF InsertAllowed(rows, contributionData)
       THEN [rows |-> rows \cup {contributionData}, success |-> TRUE]
       ELSE [rows |-> rows, success |-> FALSE]

\* the requests createGuildMemberContribution answers before any store call
createRefused(guildId, memberName) ==
    guildId = "" \/ memberName = <<>> \/ TrimEnd(TrimStart(memberName)) = <<>>

createGuildMemberContribution(rows, guildId, memberName, memberId) ==
    IF createRefused(guildId, memberName) \/ guildId \notin GuildIds
    THEN [rows |-> rows, success |-> FALSE]
    ELSE IF FindContributions(rows, guildId, memberName) # {}
    THEN [rows |-> rows, success |-> FALSE]
    ELSE createWrite(rows, guildId, memberName, memberId)

\* recalculateGuildContributions, one round of its loop after the query:
\* the update of the row found, or the insert of a new one
recalculateWrite(rows, existingContributions, guildId, memberName, data) ==
    IF existingContributions # {}
    THEN LET existing == CHOOSE r \in existingContributions : TRUE
             updated == [existing EXCEPT
                           !.contribution_score = data.count,
                           !.last_event_date = Some(data.lastEventDate)]
         IN [rows |-> UpdateRow(rows, existing, updated), success |-> TRUE]
    ELSE LET row == [guild_id |-> guildId, member_name |-> memberName,
                     member_id |-> None,
                     contribution_score |-> data.count,
                     last_event_date |-> Some(data.lastEventDate)]
         IN IF InsertAllowed(rows, row)
            THEN [rows |-> rows \cup {row}, success |-> TRUE]
            ELSE [rows |-> rows, success |-> FALSE]

\* the events in the order of sort: '-spawn_time'
RECURSIVE EventOrder(_)
EventOrder(events) ==
    IF events = {} THEN <<>>
    ELSE LET e == CHOOSE x \in events : \A y \in events : y.spawn_time <= x.spawn_time
         IN <<e>> \o EventOrder(events \ {e})

\* the participants of the events, in the order the tally meets them
RECURSIVE ParticipantsInOrder(_)
ParticipantsInOrder(order) ==
    IF order = <<>> THEN <<>>
    ELSE Head(order).participants \o ParticipantsInOrder(Tail(order))

\* a list without its repetitions, each element at its first place
RECURSIVE Distinct(_)
Distinct(list) ==
    IF list = <<>> THEN <<>>
    ELSE LET rest == Distinct(SubSeq(list, 1, Len(list) - 1))
         IN IF Includes(rest, list[Len(list)]) THEN rest
            ELSE Append(rest, list[Len(list)])

\* Object.entries(contributionCounts)
CountEntries(events) ==
    LET shown == EventsWithParticipants(events)
        counts == contributionCounts(shown)
        names == Distinct(ParticipantsInOrder(EventOrder(shown)))
    IN [i \in 1..Len(names) |-> [name |-> names[i], data |-> counts[names[i]]]]

WriterOps == {"create", "increment", "recalculate"}
WriterNames == {NameA, NamePaddedA}

\* one report listing the members "a" and "b"
WriterEvents == {LedgerEvent(1, <<NameA, NameB>>)}

IdleCall ==
    [pc |-> "idle", op |-> "none", guild_id |-> "", member_name |-> <<>>,
     found |-> {}, pending |-> <<>>, success |-> FALSE]

InitWriters ==
    /\ bosses = [b \in BossIds |-> [respawn_time |-> 1, last_spawn |-> None,
                                     next_spawn |-> None]]
    /\ spawn_events = WriterEvents
    /\ contributions = {}
    /\ calls = [c \in Callers |-> IdleCall]
    /\ reports = <<>>
    /\ spawnEvents = <<>>
    /\ now = Minutes(6)
    /\ last = [op |-> "none"]

WriterReturn(c, success) ==
    [calls EXCEPT ![c] = [IdleCall EXCEPT !.op = calls[c].op,
                                          !.success = success]]

\* a request arrives
WriterBegin(c, op, guildId, memberName) ==
    /\ calls[c].pc = "idle"
    /\ calls' = [calls EXCEPT ![c] =
                   [IdleCall EXCEPT !.pc = IF op = "recalculate" THEN "tally" ELSE "read",
                                    !.op = op,
                                    !.guild_id = guildId,
                                    !.member_name = IF op = "recalculate" THEN <<>>
                                                    ELSE memberName]]
    /\ UNCHANGED <<bosses, spawn_events, contributions, reports, spawnEvents, now, last>>

\* recalculateGuildContributions: getSpawnEvents, getGuild and the tally
WriterTally(c) ==
    /\ calls[c].pc = "tally"
    /\ LET entries == CountEntries(spawn_events)
       IN calls' = IF calls[c].guild_id \notin GuildIds
                   THEN WriterReturn(c, FALSE)
                   ELSE IF entries = <<>> THEN WriterReturn(c, TRUE)
                   ELSE [calls EXCEPT ![c].pc = "read", ![c].pending = entries]
    /\ UNCHANGED <<bosses, spawn_events, contributions, reports, spawnEvents, now, last>>

\* await this.pb.getGuildMemberContributions({filter: {guild_id, member_name}})
WriterRead(c) ==
    /\ calls[c].pc = "read"
    /\ LET name == IF calls[c].op = "recalculate" THEN Head(calls[c].pending).name
                   ELSE calls[c].member_name
           found == FindContributions(contributions, calls[c].guild_id, name)
       IN calls' = IF calls[c].op = "create" /\ found # {}
                   THEN WriterReturn(c, FALSE)
                   ELSE [calls EXCEPT ![c].pc = "write", ![c].found = found]
    /\ UNCHANGED <<bosses, spawn_events, contributions, reports, spawnEvents, now, last>>

\* the update or insert that follows the query; a store error ends the call
WriterWrite(c) ==
    /\ calls[c].pc = "write"
    /\ LET call == calls[c]
           res == IF call.op = "create"
                  THEN createWrite(contributions, call.guild_id, call.member_name, None)
                  ELSE IF call.op = "increment"
                  THEN incrementWrite(contributions, call.found, call.guild_id,
                                      call.member_name, None, None, now)
                  ELSE recalculateWrite(contributions, call.found, call.guild_id,
                                        Head(call.pending).name, Head(call.pending).data)
       IN /\ \A r \in res.rows : r.contribution_score <= MaxScore
          /\ contributions' = res.rows
          /\ calls' = IF call.op = "recalculate" /\ res.success /\ Len(call.pending) > 1
                      THEN [calls EXCEPT ![c].pc = "read",
                                         ![c].pending = Tail(call.pending)]
                      ELSE WriterReturn(c, res.success)
    /\ UNCHANGED <<bosses, spawn_events, reports, spawnEvents, now, last>>

NextWriters ==
    \E c \in Callers :
        \/ \E op \in WriterOps, memberName \in WriterNames :
              WriterBegin(c, op, "g1", memberName)
        \/ WriterTally(c)
        \/ WriterRead(c)
        \/ WriterWrite(c)

SpecWriters == InitWriters /\ [][NextWriters]_vars

(***************************************************************************)
(* The ledger's public operations, one request after another:              *)
(* createGuildMemberContribution, updateGuildMemberContribution,           *)
(* deleteGuildMemberContribution, incrementContribution,                   *)
(* recalculateGuildContributions and, from SpawnService, updateSpawnEvent  *)
(* with a participant list.  The id of a row is given as its               *)
(* (guild_id, member_name) at the time of the request.                     *)
(***************************************************************************)
\* pb.getGuildMemberContribution(id): the row, if there is one
RowOfId(rows, id) ==
    {r \in rows : r.guild_id = id.guild_id /\ r.member_name = id.member_name}

\* ContributionService.updateGuildMemberContribution(id, data, userId):
\* member_name and contribution_score are written as the request gives
\* them; renaming onto another row's name breaks the UNIQUE constraint
updateGuildMemberContribution(rows, id, data) ==
    IF RowOfId(rows, id) = {} THEN [rows |-> rows, success |-> FALSE]
    ELSE LET existingContribution == CHOOSE r \in RowOfId(rows, id) : TRUE
             updated ==
                 [existingContribution EXCEPT
                    !.member_name = IF IsSome(data.member_name)
                                       /\ Val(data.member_name) # <<>>
                                    THEN sanitizeString(Val(data.member_name)) ELSE @,
                    !.contribution_score = IF IsSome(data.contribution_score)
                                           THEN Val(data.contribution_score) ELSE @]
         IN IF /\ updated.member_name # existingContribution.member_name
               /\ FindContributions(rows, updated.guild_id, updated.member_name) # {}
            THEN [rows |-> rows, success |-> FALSE]
            ELSE [rows |-> (rows \ {existingContribution}) \cup {updated},
                  success |-> TRUE]

\* ContributionService.deleteGuildMemberContribution(id, userId)
deleteGuildMemberContribution(rows, id) ==
    IF RowOfId(rows, id) = {} THEN [rows |-> rows, success |-> FALSE]
    ELSE [rows |-> rows \ RowOfId(rows, id), success |-> TRUE]

CreateGuildMemberContribution(guildId, memberName, memberId) ==
    LET res == createGuildMemberContribution(contributions, guildId, memberName, memberId)
    IN /\ contributions' = res.rows
       /\ last' = [op |-> "createGuildMemberContribution", guild_id |-> guildId,
                   member_name |-> memberName, success |-> res.success]
       /\ UNCHANGED <<bosses, spawn_events, calls, reports, spawnEvents, now>>

UpdateGuildMemberContribution(id, data) ==
    LET res == updateGuildMemberContribution(contributions, id, data)
    IN /\ contributions' = res.rows
       /\ last' = [op |-> "updateGuildMemberContribution", id |-> id, data |-> data,
                   success |-> res.success]
       /\ UNCHANGED <<bosses, spawn_events, calls, reports, spawnEvents, now>>

DeleteGuildMemberContribution(id) ==
    LET res == deleteGuildMemberContribution(contributions, id)
    IN /\ contributions' = res.rows
       /\ last' = [op |-> "deleteGuildMemberContribution", id |-> id,
                   success |-> res.success]
       /\ UNCHANGED <<bosses, spawn_events, calls, reports, spawnEvents, now>>

\* the scores a request may carry: guildMemberContributionSchemas.update
\* admits integers from 0
RequestScores == {0, MaxScore - 1}

ContributionIds == [guild_id : {"g1"}, member_name : {NameA, NameB}]

ContributionUpdates ==
    [member_name : {None, Some(NameB)},
     contribution_score : {None} \cup {Some(n) : n \in RequestScores}]

ScoreParticipantUpdates ==
    [spawn_time : {None}, server : {None}, verified : {None},
     participants : {Some(<<NameA>>), Some(<<NameC, NameA>>)}]

InitScores ==
    /\ bosses = [b \in BossIds |-> [respawn_time |-> 1, last_spawn |-> None,
                                     next_spawn |-> None]]
    /\ spawn_events = {ParticipantEvent(1)}
    /\ contributions = {}
    /\ calls = <<>>
    /\ reports = <<>>
    /\ spawnEvents = <<>>
    /\ now = Minutes(12)
    /\ last = [op |-> "none"]

NextScores ==
    \/ \E memberName \in {NameA, NamePaddedA, NameC} :
          CreateGuildMemberContribution("g1", memberName, None)
    \/ \E id \in ContributionIds, data \in ContributionUpdates :
          UpdateGuildMemberContribution(id, data)
    \/ \E id \in ContributionIds : DeleteGuildMemberContribution(id)
    \/ \E memberName \in {NameA, NameB} :
          IncrementContribution("g1", memberName, None, None)
    \/ RecalculateGuildContributions("g1")
    \/ \E data \in ScoreParticipantUpdates : UpdateSpawnEvent(1, data, "u1")

SpecScores == InitScores /\ [][NextScores]_vars

(***************************************************************************)
(* Reports are created and edited, and none is deleted.                    *)
(***************************************************************************)
InitEdits == InitTimer

NextEdits ==
    \/ \E data \in ModerationCreateRequests, userId \in {"u1", "u2"} :
          CreateSpawnEvent(data, userId)
    \/ \E id \in ModerationEventIds, userId \in ModerationUserIds,
          data \in ModerationUpdates :
          UpdateSpawnEvent(id, data, userId)

SpecEdits == InitEdits /\ [][NextEdits]_vars

(***************************************************************************)
(* createSpawnEvent when a store call throws.  Each of getBoss,            *)
(* getSpawnEvents, createSpawnEvent and updateBoss of the store client     *)
(* throws the error the store answers with; the service's catch turns it   *)
(* into {success: false}.  What the call wrote before stays written.       *)
(***************************************************************************)
StoreCalls == {"getBoss", "getSpawnEvents", "createSpawnEvent", "updateBoss"}

\* the call gets as far as its insert: valid data, a stored boss, no
\* report found by the duplicate query
ReachesInsert(data) ==
    /\ validateSpawnEventData(data, now)
    /\ data.boss_id \in BossIds
    /\ EventsInRange(spawn_events, data.boss_id,
                     Val(data.spawn_time) - DuplicateToleranceMinutes * MsPerMinute,
                     Val(data.spawn_time) + DuplicateToleranceMinutes * MsPerMinute) = {}

CreateSpawnEventStoreError(data, userId, failing) ==
    /\ validateSpawnEventData(data, now)
    /\ failing = "getSpawnEvents" => data.boss_id \in BossIds
    /\ failing \in {"createSpawnEvent", "updateBoss"} => ReachesInsert(data)
    /\ IF failing = "updateBoss"
       THEN /\ Cardinality(spawn_events) < MaxEvents
            /\ spawn_events' = spawn_events \cup
                  {[id |-> FreshEventId(spawn_events),
                    boss_id |-> data.boss_id,
                    spawn_time |-> Val(data.spawn_time),
                    reported_by |-> userId,
                    verified |-> FALSE,
                    server |-> data.server,
                    participants |-> <<>>]}
       ELSE UNCHANGED spawn_events
    /\ last' = CreateRequest(data) @@ [success |-> FALSE, error |-> "store"]
    /\ UNCHANGED <<bosses, contributions, calls, reports, spawnEvents, now>>

InitFaults == InitTimer

NextFaults ==
    \E data \in CreateRequests, userId \in UserIds :
        \/ CreateSpawnEvent(data, userId)
        \/ \E failing \in StoreCalls : CreateSpawnEventStoreError(data, userId, failing)

SpecFaults == InitFaults /\ [][NextFaults]_vars

(***************************************************************************)
(* Claims about the spawn timeline (specification Spec)                    *)
(***************************************************************************)
EventsOf(events, b) == {e \in events : e.boss_id = b}

\* the step served a createSpawnEvent request
CreateStep == last'.op = "createSpawnEvent" /\ vars' # vars

\* C1: for a boss with no prior spawn (last_spawn and next_spawn null) and
\* respawn interval N minutes, an accepted createSpawnEvent with spawn_time T
\* leaves the boss with last_spawn = T and next_spawn = T + N minutes exactly.
C1_FirstReportSetsNextSpawn ==
    [][\A b \in BossIds :
         (/\ CreateStep
          /\ last'.success
          /\ last'.boss_id = b
          /\ bosses[b].last_spawn = None
          /\ bosses[b].next_spawn = None)
         => /\ bosses'[b].last_spawn = last'.spawn_time
            /\ bosses'[b].next_spawn =
                  Some(Val(last'.spawn_time) + bosses[b].respawn_time * 60 * 1000)]_vars

\* a first report at a time other than the clock's was accepted for a boss
\* with the longest interval, and the boss's timer shows T + N minutes
C1_Witness ==
    \E b \in BossIds :
        /\ last.op = "createSpawnEvent"
        /\ last.success
        /\ last.boss_id = b
        /\ Cardinality(EventsOf(spawn_events, b)) = 1
        /\ bosses[b].respawn_time = MaxRespawnTime
        /\ Val(last.spawn_time) # now
        /\ bosses[b].last_spawn = last.spawn_time
        /\ bosses[b].next_spawn = Some(Val(last.spawn_time) + MaxRespawnTime * 60 * 1000)

\* some stored event of boss b lies within 5 minutes of T, before or after
WithinTolerance(events, b, T) ==
    \E e \in EventsOf(events, b) :
        /\ e.spawn_time >= T - 5 * 60 * 1000
        /\ e.spawn_time <= T + 5 * 60 * 1000

\* C2: the duplicate guard is symmetric: a createSpawnEvent for boss B with
\* spawn_time T (valid, B existing) is rejected if and only if some stored
\* event of B has spawn_time in [T - 5 min, T + 5 min].
C2_GuardIsSymmetric ==
    [][(/\ CreateStep
        /\ last'.error \notin {"validation", "boss not found"})
       => (~last'.success
             <=> WithinTolerance(spawn_events, last'.boss_id, Val(last'.spawn_time)))]_vars

\* C3: a createSpawnEvent rejected by the duplicate guard returns a failure
\* and leaves the store unchanged: no event is created and the boss keeps
\* its last_spawn and next_spawn.
C3_DuplicateRejectionWritesNothing ==
    [][(CreateStep /\ last'.error = "duplicate")
       => /\ ~last'.success
          /\ spawn_events' = spawn_events
          /\ bosses' = bosses]_vars

\* a report was rejected as a duplicate while the boss's timer shows an
\* earlier report
C3_Witness ==
    \E b \in BossIds :
        /\ last.op = "createSpawnEvent"
        /\ last.error = "duplicate"
        /\ last.boss_id = b
        /\ ~last.success
        /\ IsSome(bosses[b].last_spawn)
        /\ bosses[b].last_spawn # last.spawn_time
        /\ \A e \in spawn_events : e.spawn_time # Val(last.spawn_time)

(***************************************************************************)
(* Claims about the ledger, one request after another (SpecLedger)         *)
(***************************************************************************)
\* the step served an incrementContribution call
IncrementStep == last'.op = "incrementContribution" /\ vars' # vars

\* the rows the store holds for the member a call names: the row of that
\* name or, when there is none, the row of the name as the ledger writes it
KeyRows(rows, guildId, memberName) ==
    IF FindContributions(rows, guildId, memberName) # {}
    THEN FindContributions(rows, guildId, memberName)
    ELSE FindContributions(rows, guildId, sanitizeString(memberName))

KeyScore(rows, guildId, memberName) ==
    IF KeyRows(rows, guildId, memberName) = {} THEN 0
    ELSE (CHOOSE r \in KeyRows(rows, guildId, memberName) : TRUE).contribution_score

\* C5: sequential increments count exactly: the first incrementContribution
\* for a member of an existing guild with no row creates a row with score 1,
\* and every later call for the same member succeeds and raises the score
\* by exactly 1.
C5_SequentialIncrementsCount ==
    [][(/\ IncrementStep
        /\ last'.guild_id \in GuildIds
        /\ last'.member_name # <<>>)
       => /\ last'.success
          /\ KeyScore(contributions', last'.guild_id, last'.member_name)
               = KeyScore(contributions, last'.guild_id, last'.member_name) + 1]_vars

Later(a, b) == IF a >= b THEN a ELSE b

\* C6: last_event_date never moves backward under increment: an increment
\* of an existing row that supplies an event date leaves last_event_date at
\* the later of the stored and the supplied date.
C6_LastEventDateIsLatest ==
    [][(/\ IncrementStep
        /\ last'.success
        /\ IsSome(last'.event_date))
       => \A r \in FindContributions(contributions, last'.guild_id, last'.member_name) :
            \A q \in FindContributions(contributions', last'.guild_id, last'.member_name) :
               IsSome(r.last_event_date)
               => q.last_event_date
                    = Some(Later(Val(r.last_event_date), Val(last'.event_date)))]_vars

\* the places where a name stands in the participant lists of the stored events
Mentions(events, name) ==
    UNION {{<<e.id, i>> : i \in {j \in 1..Len(e.participants) : e.participants[j] = name}} :
             e \in events}

LatestMention(events, name) ==
    CHOOSE t \in {e.spawn_time : e \in events} :
        /\ \E e \in events : e.spawn_time = t /\ \E m \in Mentions(events, name) : m[1] = e.id
        /\ \A e \in events :
             (\E m \in Mentions(events, name) : m[1] = e.id) => e.spawn_time <= t

\* C8: after recalculateGuildContributions(g) every Contribution row of g has
\* contribution_score equal to the number of occurrences of its member_name
\* in the participant lists of the stored events (0 included) and, when it
\* occurs, last_event_date equal to the latest spawn_time among those events.
C8_RecomputeMatchesTally ==
    (last.op = "recalculateGuildContributions" /\ last.success)
    => \A r \in contributions :
         r.guild_id = last.guild_id
         => /\ r.contribution_score = Cardinality(Mentions(spawn_events, r.member_name))
            /\ Mentions(spawn_events, r.member_name) # {}
                 => r.last_event_date = Some(LatestMention(spawn_events, r.member_name))

\* C9: recalculateGuildContributions is idempotent: run a second time for
\* the same guild right after a successful run, it leaves every Contribution
\* row as the first run left it.
C9_RecomputeIsIdempotent ==
    [][(/\ last'.op = "recalculateGuildContributions"
        /\ last'.repeated)
       => contributions' = contributions]_vars

\* the second of two runs in a row has completed, over a history that gives
\* one member several occurrences and with a row the runs leave alone
C9_Witness ==
    /\ last.op = "recalculateGuildContributions"
    /\ last.repeated
    /\ \E r \in contributions :
         r.guild_id = last.guild_id /\ r.contribution_score >= 2
           /\ Mentions(spawn_events, r.member_name) # {}
    /\ \E r \in contributions : Mentions(spawn_events, r.member_name) = {}

(***************************************************************************)
(* Claims about the ledger under concurrent requests (SpecConcurrent)      *)
(***************************************************************************)
\* C4: concurrent increments do not lose updates: when NumCallers calls of
\* incrementContribution for the same (guild_id, member_name) have run with
\* their reads and writes interleaved and all have returned, the row's
\* contribution_score is NumCallers higher than before (NumCallers if there
\* was no row).
C4_NoLostUpdate ==
    (\A c \in Callers : calls[c].pc = "done")
    => KeyScore(contributions, "g1", NameA)
         = KeyScore(last.before, "g1", NameA) + NumCallers

(***************************************************************************)
(* Claims about participant lists (SpecParticipants)                       *)
(***************************************************************************)
\* the events whose participant list names the member
EventsListing(events, name) ==
    {e \in events : \E i \in 1..Len(e.participants) : e.participants[i] = name}

\* C7: a member's counter is incremented exactly once per event the member
\* is recorded as participating in: whatever lists updateSpawnEvent has set
\* (the same list again, or a list that names a member twice), every row's
\* contribution_score is the number of events that list its member.  (The
\* rows start at 0 and nothing but updateSpawnEvent runs.)
C7_OncePerEvent ==
    \A r \in contributions :
        r.contribution_score = Cardinality(EventsListing(spawn_events, r.member_name))

(***************************************************************************)
(* Claims about the notification decision (specification SpecTimer)        *)
(***************************************************************************)
\* C10: for a fixed (user, boss, lead-time) and a fixed next_spawn, however
\* often the timer is queried after the due time, the lead-time is reported
\* due exactly once; it is reported again only after next_spawn has moved to
\* a new value.  So, of the answers "due" given for a next_spawn computed
\* from a recorded spawn event, no two are for the same user, boss, lead-time
\* and next_spawn.
C10_DueOncePerCycle ==
    \A i, j \in 1..Len(reports) :
        (reports[i].from_event /\ reports[i] = reports[j]) => i = j

(***************************************************************************)
(* Claims about TimerUtils.shouldSendNotification (SpecNotification)       *)
(***************************************************************************)
\* the instant next_spawn - value * unit of the last call
NotificationTime ==
    last.next_spawn
        - last.timing.value * (IF last.timing.type = "minutes" THEN 60 ELSE 1) * MsPerSecond

KeySent ==
    \E i \in 1..Len(last.sent) :
        last.sent[i] = <<last.timing.type, last.timing.value>>

WholeSecond(t) == t % MsPerSecond = 0

\* C11: for a lead-time whose key is not in the sent list,
\* shouldSendNotification returns true iff now >= next_spawn - value * unit
\* (unit 60 s for minutes, 1 s for seconds) at whole-second granularity: iff
\* less than one whole second remains until that instant, which for instants
\* on whole seconds is now >= next_spawn - value * unit.  It returns false
\* whenever the key is in the sent list.
C11_DueIffNotificationTimeReached ==
    last.op = "shouldSendNotification" =>
        /\ KeySent => ~last.result
        /\ ~KeySent => (last.result <=> NotificationTime - last.clock < MsPerSecond)
        /\ (~KeySent /\ WholeSecond(last.clock) /\ WholeSecond(NotificationTime))
              => (last.result <=> last.clock >= NotificationTime)

\* a lead-time of minutes, not yet sent, was asked for at its notification
\* instant and answered true
C11_Witness ==
    /\ last.op = "shouldSendNotification"
    /\ last.timing.type = "minutes"
    /\ ~KeySent
    /\ last.clock = NotificationTime
    /\ last.result

(***************************************************************************)
(* Claims about the predictor (specification SpecPredictor)                *)
(***************************************************************************)
\* how often instant t occurs among the events of a list
TimesAt(list, t) == Cardinality({i \in 1..Len(list) : list[i].spawn_time = t})

\* the instants of a list in chronological order
Chronological(list) ==
    CHOOSE s \in [1..Len(list) -> PredictorTimes] :
        /\ \A i \in 1..(Len(list) - 1) : s[i] <= s[i + 1]
        /\ \A t \in PredictorTimes :
              Cardinality({i \in 1..Len(list) : s[i] = t}) = TimesAt(list, t)

\* the whole minutes from instant a to the later instant b
WholeMinutes(a, b) ==
    CHOOSE m \in 0..((b - a) \div MsPerMinute) :
        m * MsPerMinute <= b - a /\ b - a < (m + 1) * MsPerMinute

RECURSIVE GapSum(_, _)
\* the sum of the whole-minute gaps between the first k instants of s
GapSum(s, k) ==
    IF k <= 1 THEN 0 ELSE GapSum(s, k - 1) + WholeMinutes(s[k - 1], s[k])

\* r is round(max(0, 100 - |avg - C| / C * 100)) for avg = sum / n:
\* with x = 100 - 100 * |sum - n C| / (n C), r is 0 when x <= 0 and otherwise
\* the integer with r - 1/2 <= x < r + 1/2
IsAccuracy(r, sum, n, C) ==
    LET dev == IF sum >= n * C THEN sum - n * C ELSE n * C - sum
    IN IF dev >= n * C THEN r = 0
       ELSE /\ (2 * r - 1) * n * C <= 200 * (n * C - dev)
            /\ 200 * (n * C - dev) < (2 * r + 1) * n * C

\* C12: for a list of at least 2 events in any order and a configured
\* interval C in 1..10080, calculateSpawnAccuracy returns
\* round(max(0, 100 - |avg - C| / C * 100)), avg being the mean of the
\* whole-minute gaps between chronologically consecutive events, and the
\* result is an integer in 0..100.
C12_AccuracyFormula ==
    (last.op = "calculateSpawnAccuracy" /\ Len(last.input) >= 2) =>
        /\ last.result \in 0..100
        /\ IsAccuracy(last.result,
                      GapSum(Chronological(last.input), Len(last.input)),
                      Len(last.input) - 1, last.respawn_time)

\* the accuracy of three events given out of chronological order was
\* computed and lies strictly between 0 and 100
C12_Witness ==
    /\ last.op = "calculateSpawnAccuracy"
    /\ Len(last.input) = 3
    /\ last.input[1].spawn_time > last.input[2].spawn_time
    /\ last.input[2].spawn_time < last.input[3].spawn_time
    /\ last.result \in 1..99

\* the call was for a boss at a 60-minute interval with exactly three
\* events, at T, T + 60 min and T + 62 min
SixtySixtyTwo ==
    /\ last.op = "calculateSpawnAccuracy"
    /\ last.respawn_time = 60
    /\ Len(last.input) = 3
    /\ \E T \in PredictorTimes :
          \A t \in {T, T + Minutes(60), T + Minutes(62)} : TimesAt(last.input, t) = 1

\* C13 as stated: for a boss at a 60-minute interval with exactly three
\* events at T, T+60 min and T+62 min the average interval is 61 minutes and
\* the accuracy returned is 98.
C13_AverageSixtyOne ==
    SixtySixtyTwo =>
        /\ GapSum(Chronological(last.input), 3) = 2 * 61
        /\ last.result = 98

\* C13 as the code has it: for a boss at a 60-minute interval with exactly
\* three events at T, T+60 min and T+62 min the consecutive gaps are 60 and
\* 2 minutes, the average interval is 31 minutes and the accuracy returned
\* is 52.
C13_AverageThirtyOne ==
    SixtySixtyTwo =>
        /\ GapSum(Chronological(last.input), 3) = 2 * 31
        /\ last.result = 52

\* the accuracy of T+60, T, T+62 at a 60-minute interval was computed
C13_Witness ==
    /\ SixtySixtyTwo
    /\ last.input[2].spawn_time < last.input[1].spawn_time
    /\ last.input[1].spawn_time < last.input[3].spawn_time
    /\ spawnEvents # last.input

\* C14: insufficient history gives a zero or empty result and no error:
\* calculateSpawnAccuracy returns 0 for fewer than 2 events, getSpawnWindows
\* returns the empty list for fewer than 3 events, and with exactly 2 events
\* the accuracy is computed from the single interval while the window list
\* is empty.
C14_InsufficientHistory ==
    /\ (last.op = "calculateSpawnAccuracy" /\ Len(last.input) < 2)
          => last.result = 0
    /\ (last.op = "getSpawnWindows" /\ Len(last.input) < 3)
          => last.result = <<>>
    /\ (last.op = "calculateSpawnAccuracy" /\ Len(last.input) = 2)
          => LET a == last.input[1].spawn_time
                 b == last.input[2].spawn_time
                 gap == IF a <= b THEN WholeMinutes(a, b) ELSE WholeMinutes(b, a)
             IN IsAccuracy(last.result, gap, 1, last.respawn_time)

\* with exactly two events an hour apart, the accuracy at a 60-minute
\* interval came out as 100
C14_Witness ==
    /\ last.op = "calculateSpawnAccuracy"
    /\ Len(last.input) = 2
    /\ last.respawn_time = 60
    /\ last.result = 100

\* the whole-minute gaps between the chronologically consecutive events
ChronologicalGaps(list) ==
    LET s == Chronological(list)
    IN [i \in 1..(Len(list) - 1) |-> WholeMinutes(s[i], s[i + 1])]

LatestTime(list) == Chronological(list)[Len(list)]

\* C15: for a list of at least 3 events with mean inter-arrival interval m
\* and population standard deviation s, getSpawnWindows returns exactly 3
\* windows, window k (k = 1, 2, 3) has start = last_spawn_time + k*m - s and
\* end = last_spawn_time + k*m + s, so end - start = 2*s, and start < end
\* whenever s > 0.
C15_WindowsAroundPrediction ==
    (last.op = "getSpawnWindows" /\ Len(last.input) >= 3) =>
        LET m == AverageIntervalMs(ChronologicalGaps(last.input))
            s == StandardDeviationMs(ChronologicalGaps(last.input))
            point(k) == LatestTime(last.input) + k * m
        IN /\ Len(last.result) = 3
           /\ \A k \in 1..3 :
                 /\ last.result[k].start = point(k) - s
                 /\ last.result[k].end = point(k) + s
                 /\ last.result[k].end - last.result[k].start = 2 * s
                 /\ s > 0 => last.result[k].start < last.result[k].end

\* C16: predictSpawnTimes returns the empty list when there are no events;
\* otherwise it returns exactly count timestamps (3 when count is omitted),
\* the k-th being the latest event's spawn_time plus k times the boss's
\* configured respawn interval, whatever the order of the input and the
\* gaps between the events.
C16_PredictionsFromLatest ==
    last.op = "predictSpawnTimes" =>
        IF last.input = <<>> THEN last.result = <<>>
        ELSE LET count == IF IsSome(last.count) THEN Val(last.count) ELSE 3
             IN /\ Len(last.result) = count
                /\ \A k \in 1..Len(last.result) :
                      last.result[k]
                          = LatestTime(last.input) + k * last.respawn_time * MsPerMinute

\* the step was a call of one of the three predictor functions
PredictorStep ==
    last'.op \in {"calculateSpawnAccuracy", "predictSpawnTimes", "getSpawnWindows"}

\* C17: the predictor is read-only: calculateSpawnAccuracy, predictSpawnTimes
\* and getSpawnWindows leave the caller's event list unchanged (the same
\* elements in the same order with the same spawn_time values), and calling
\* one of them twice on the same list and clock returns the same result.
C17_PredictorIsReadOnly ==
    [][PredictorStep =>
          /\ spawnEvents' = spawnEvents
          /\ (/\ last.op = last'.op
              /\ last.respawn_time = last'.respawn_time
              /\ last.count = last'.count
              /\ last.input = last'.input)
                => last'.result = last.result]_vars

(***************************************************************************)
(* Claims about deleting and verifying reports (SpecModeration)            *)
(***************************************************************************)
EventWithId(events, id) == {e \in events : e.id = id}

\* C18: deleteSpawnEvent removes only the event row: the owning boss's
\* last_spawn and next_spawn are unchanged afterwards, also when the deleted
\* event was the boss's most recent one.
C18_DeleteLeavesBossTimer ==
    [][(last'.op = "deleteSpawnEvent" /\ last'.success /\ vars' # vars)
          => /\ spawn_events' = spawn_events \ EventWithId(spawn_events, last'.id)
             /\ EventWithId(spawn_events, last'.id) # {}
             /\ bosses' = bosses
             /\ contributions' = contributions]_vars

\* the boss's only report was deleted and the boss's timer still shows it
C18_Witness ==
    /\ last.op = "deleteSpawnEvent"
    /\ last.success
    /\ EventsOf(spawn_events, "b1") = {}
    /\ IsSome(bosses["b1"].last_spawn)
    /\ IsSome(bosses["b1"].next_spawn)

IsAdmin(userId) == \E u \in Users : u.id = userId /\ u.role = "admin"

\* the step served a verifySpawnEvent or updateSpawnEvent request
FlagRequestStep ==
    /\ last'.op \in {"verifySpawnEvent", "updateSpawnEvent"}
    /\ vars' # vars

\* C19: every spawn event is created with verified = false whatever the
\* request carries; an event's verified flag changes only through
\* verifySpawnEvent or updateSpawnEvent invoked by the event's reporter or by
\* a user whose role is admin; the same calls by any other user return a
\* permission failure and leave the event unchanged.
C19_VerifiedOnlyByReporterOrAdmin ==
    [][/\ \A e \in spawn_events' :
             EventWithId(spawn_events, e.id) = {} => ~e.verified
       /\ \A e \in spawn_events, f \in spawn_events' :
             (e.id = f.id /\ e.verified # f.verified)
                => /\ FlagRequestStep
                   /\ last'.success
                   /\ last'.id = e.id
                   /\ (last'.user = e.reported_by \/ IsAdmin(last'.user))
       /\ \A e \in spawn_events :
             (/\ FlagRequestStep
              /\ last'.id = e.id
              /\ last'.user # e.reported_by
              /\ ~IsAdmin(last'.user))
                => /\ ~last'.success
                   /\ last'.error = "permissions"
                   /\ spawn_events' = spawn_events]_vars

\* an administrator verified a report of another member, whose request to
\* create it had carried verified = true or not
C19_Witness ==
    /\ last.op = "verifySpawnEvent"
    /\ last.success
    /\ IsAdmin(last.user)
    /\ \E e \in spawn_events :
          e.id = last.id /\ e.verified /\ e.reported_by # last.user

(***************************************************************************)
(* Claims about participants nobody tracks (specification SpecRoster)      *)
(***************************************************************************)
\* the names of a participant list
ListedNames(list) == {list[i] : i \in 1..Len(list)}

\* the name resolves to no account and no row of any guild carries it
Unknown(rows, name) ==
    /\ FindUsers(name) = {}
    /\ \A r \in rows : r.member_name # name

\* C20: a participant name that resolves to no account and has no
\* Contribution row in any guild is silently dropped: updateSpawnEvent with
\* that participant succeeds, creates no Contribution row for it, and (when
\* the list names nobody else) changes no row at all.
C20_UnknownParticipantDropped ==
    [][(/\ last'.op = "updateSpawnEvent"
        /\ vars' # vars
        /\ \E e \in spawn_events : e.id = last'.id /\ e.reported_by = last'.user
        /\ IsSome(last'.data.participants))
          => LET list == Val(last'.data.participants)
                 dropped == {p \in ListedNames(list) : Unknown(contributions, p)}
             IN /\ dropped # {} => last'.success
                /\ \A p \in dropped : \A r \in contributions' : r.member_name # p
                /\ (dropped # {} /\ dropped = ListedNames(list))
                      => contributions' = contributions
                /\ \A r \in contributions, q \in contributions' :
                      (/\ dropped # {}
                       /\ r.guild_id = q.guild_id
                       /\ r.member_name = q.member_name
                       /\ r.member_name \notin ListedNames(list)
                       /\ \A u \in Users : u.username = r.member_name
                              => IdText(u.id) \notin ListedNames(list))
                         => q = r]_vars

\* an update naming only the unknown member "c" succeeded while other
\* members have rows, and no row is for "c"
C20_Witness ==
    /\ last.op = "updateSpawnEvent"
    /\ last.success
    /\ last.data.participants = Some(<<NameC>>)
    /\ contributions # {}
    /\ \A r \in contributions : r.member_name # NameC

(***************************************************************************)
(* Claims about createSpawnEvent under concurrent requests (SpecRace)      *)
(***************************************************************************)
\* the two calls report the same stored boss at times no more than the
\* tolerance apart
RacingPair(c, d) ==
    /\ c # d
    /\ calls[c].data.boss_id = calls[d].data.boss_id
    /\ calls[c].data.boss_id \in BossIds
    /\ IsSome(calls[c].data.spawn_time)
    /\ IsSome(calls[d].data.spawn_time)
    /\ Abs(Val(calls[c].data.spawn_time) - Val(calls[d].data.spawn_time))
          <= DuplicateToleranceMinutes * MsPerMinute

\* C21: the duplicate guard gives no mutual exclusion across requests: when
\* two createSpawnEvent calls for the same boss with spawn_times within 5
\* minutes of each other have both run the duplicate query before either
\* inserted, and the store holds no other report of that boss, both pass the
\* check, both return success and both events are in the store.
C21_RacingReportsBothPersist ==
    \A c, d \in Callers :
        (/\ RacingPair(c, d)
         /\ calls[c].pc = "done"
         /\ calls[d].pc = "done"
         /\ d \notin calls[c].before
         /\ c \notin calls[d].before
         /\ \A e \in spawn_events :
               e.boss_id = calls[c].data.boss_id
                  => e.id \in {RaceEventId(c), RaceEventId(d)})
          => /\ calls[c].success
             /\ calls[d].success
             /\ RaceSpawnEvent(c) \in spawn_events
             /\ RaceSpawnEvent(d) \in spawn_events

\* two calls for b1 at minutes 0 and 3 have both returned success and the
\* store holds both reports
C21_Witness ==
    \E c, d \in Callers :
        /\ RacingPair(c, d)
        /\ calls[c].pc = "done" /\ calls[d].pc = "done"
        /\ calls[c].success /\ calls[d].success
        /\ Val(calls[c].data.spawn_time) = Minutes(0)
        /\ Val(calls[d].data.spawn_time) = Minutes(3)
        /\ {RaceSpawnEvent(c), RaceSpawnEvent(d)} \subseteq spawn_events

(***************************************************************************)
(* Claims about the ledger's writers run concurrently (SpecWriters)        *)
(***************************************************************************)
\* C22: in every reachable state, under any sequential or interleaved mix
\* of createGuildMemberContribution, incrementContribution and
\* recalculateGuildContributions calls, there is at most one Contribution
\* row per (guild_id, member_name).
C22_OneRowPerMember ==
    \A r, q \in contributions :
        (r.guild_id = q.guild_id /\ r.member_name = q.member_name) => r = q

\* an incrementContribution call that had found no row for its member had
\* its insert refused, because a row for that member was in the table by then
C22_Witness ==
    \E c \in Callers :
        /\ calls[c].pc = "idle"
        /\ calls[c].op = "increment"
        /\ ~calls[c].success
        /\ FindContributions(contributions, "g1", NameA) # {}

(***************************************************************************)
(* Claims about the ledger's public operations (specification SpecScores)  *)
(***************************************************************************)
\* C23: contribution_score is a non-negative integer in every reachable
\* state, and between two consecutive states the score of a row never
\* decreases unless the step is a recalculateGuildContributions: no other
\* public operation of ContributionService or SpawnService lowers an
\* existing row's score.
C23_ScoreLoweredOnlyByRecompute ==
    [][/\ \A q \in contributions' : q.contribution_score \in Nat
       /\ \A r \in contributions, q \in contributions' :
             (/\ r.guild_id = q.guild_id
              /\ r.member_name = q.member_name
              /\ q.contribution_score < r.contribution_score)
                => last'.op = "recalculateGuildContributions"]_vars

(***************************************************************************)
(* Claims about the RespawnTimer returned (specification SpecTimer)        *)
(***************************************************************************)
\* C24: in every RespawnTimer returned by getRespawnTimer, time_remaining =
\* max(0, next_spawn - now) in whole seconds and is_active is true if and
\* only if now < the returned next_spawn, whether a latest event is
\* supplied, only boss.last_spawn exists, or neither exists (the bootstrap
\* next_spawn = now + interval with boss.next_spawn still null).
C24_TimerFieldsAgree ==
    [][(now' = now /\ last'.op = "getBossTimer" /\ last'.success)
          => LET timer == last'.timer
                 seconds == TruncDiv(timer.next_spawn - now, MsPerSecond)
             IN /\ timer.time_remaining = IF seconds > 0 THEN seconds ELSE 0
                /\ timer.is_active <=> now < timer.next_spawn]_vars

(***************************************************************************)
(* Claims about edits of stored reports (specification SpecModeration)     *)
(***************************************************************************)
\* C25: spawn_time history is immutable: updateSpawnEvent changes at most
\* an event's verified flag, notes, coordinates, kill_time and
\* participants; the event's spawn_time, boss_id and server are the same
\* after any update as before it.
C25_UpdateKeepsSpawnTime ==
    [][(last'.op = "updateSpawnEvent" /\ spawn_events' # spawn_events)
          => \A e \in spawn_events, f \in spawn_events' :
                e.id = f.id => /\ f.spawn_time = e.spawn_time
                               /\ f.boss_id = e.boss_id
                               /\ f.server = e.server]_vars

(***************************************************************************)
(* Claims about the boss's timer under edits (specification SpecEdits)     *)
(***************************************************************************)
\* C26: after any sequence of accepted createSpawnEvent and updateSpawnEvent
\* calls for a boss (with no deletes), the boss's last_spawn equals the
\* greatest spawn_time among that boss's stored events: a backdated report
\* or an edit of an older event never moves last_spawn backward.
C26_LastSpawnIsGreatest ==
    \A b \in BossIds :
        EventsOf(spawn_events, b) # {}
           => bosses[b].last_spawn
                 = Some(SetMax({e.spawn_time : e \in EventsOf(spawn_events, b)}))

(***************************************************************************)
(* Claims about the spacing of stored reports (SpecModeration)             *)
(***************************************************************************)
\* C27: with requests executed strictly one after another, no reachable
\* state contains two stored spawn events for the same boss whose
\* spawn_times are 5 minutes or less apart, under any sequence of
\* createSpawnEvent, updateSpawnEvent (including spawn_time edits) and
\* deleteSpawnEvent.
C27_StoredReportsApart ==
    \A e, f \in spawn_events :
        (e.id # f.id /\ e.boss_id = f.boss_id)
           => Abs(e.spawn_time - f.spawn_time)
                 > DuplicateToleranceMinutes * MsPerMinute

(***************************************************************************)
(* Claims about createSpawnEvent under store errors (SpecFaults)           *)
(***************************************************************************)
\* C28: createSpawnEvent is all-or-nothing: whenever it returns success =
\* false (validation failure, missing boss, duplicate, or a store error at
\* any step including the boss update), no new spawn event row exists in
\* the store and the boss's last_spawn and next_spawn are unchanged.
C28_FailedCreateWritesNothing ==
    [][(CreateStep /\ ~last'.success)
          => /\ spawn_events' = spawn_events
             /\ bosses' = bosses]_vars

(***************************************************************************)
(* Claims about the rows created for participants (SpecRoster)             *)
(***************************************************************************)
\* the accounts a new row of that guild and name stands for
AccountsOf(row) ==
    {u \in Users : u.username = row.member_name /\ u.guild = Some(row.guild_id)}

\* C29: when updateContributionsForParticipants creates a new Contribution
\* row for a participant resolved to an account, the row's member_id is
\* that same account's id, for every participant list, including lists that
\* mix account-backed participants with free-text names tracked in the same
\* guild, in any order.
C29_NewRowCarriesAccountId ==
    [][(last'.op = "updateSpawnEvent" /\ last'.success)
          => \A q \in contributions' :
                (FindContributions(contributions, q.guild_id, q.member_name) = {})
                   => \A u \in AccountsOf(q) : q.member_id = Some(u.id)]_vars

(***************************************************************************)
(* Claims about the scope of a recompute (specification SpecLedger)        *)
(***************************************************************************)
\* the member has an account in the guild or a Contribution row in it
BelongsTo(rows, guildId, memberName) ==
    \/ \E u \in Users : u.username = memberName /\ u.guild = Some(guildId)
    \/ FindContributions(rows, guildId, memberName) # {}

\* C30: recalculateGuildContributions(g) is scoped to guild g: it modifies
\* or creates only rows whose guild_id is g, and it creates or credits a row
\* in g only for participants that belong to g (have an account in g or an
\* existing Contribution row in g), never for participants of events that
\* belong solely to other guilds.
C30_RecomputeScopedToGuild ==
    [][(last'.op = "recalculateGuildContributions" /\ last'.success)
          => /\ \A r \in (contributions \ contributions')
                         \cup (contributions' \ contributions) :
                   r.guild_id = last'.guild_id
             /\ \A q \in contributions' \ contributions :
                   BelongsTo(contributions, q.guild_id, q.member_name)]_vars

====
